---- MODULE Spec2Model ----
(***************************************************************************)
(* The command interpreter of AGON MOS (src/src/mos.c): line trimming and  *)
(* tokenising, command-table dispatch, the executable search-and-load      *)
(* protocol with its system-area guard and binary-mode dispatch, and the   *)
(* system-variable commands.                                               *)
(*                                                                         *)
(* Strings are sequences of one-character strings.  A C string pointer     *)
(* into the line buffer is modelled by the text it points at.              *)
(***************************************************************************)
EXTENDS Integers, Sequences, FiniteSets, TLC

VARIABLES
    mos_strtok_ptr,     \* static char * mos_strtok_ptr: the text the cursor points at
    hdr,                \* RAM at addr+0x40..0x44 for each address a binary is run from
    sysvars,            \* mosSystemVariables: the linked list, head first
    inv,                \* the call just made: operation and arguments
    loads,              \* mos_LOAD calls of that call, in order
    calls,              \* handler and trampoline invocations of that call, in order
    ret,                \* the value that call returned
    hotkey_strings,     \* hotkey_strings[0..11]: the text of each function key
    mosFileObjects,     \* mosFileObjects[MOS_maxOpenFiles]: free flag and FIL of each slot
    keyascii,           \* volatile BYTE keyascii, stored by the keyboard interrupt
    getkey              \* mos_getkey: where the call is, its ch, the keys stored and returned

vars == <<mos_strtok_ptr, hdr, sysvars, inv, loads, calls, ret,
          hotkey_strings, mosFileObjects, keyascii, getkey>>

----------------------------------------------------------------------------
(* Characters                                                              *)

UpperCase == <<"A","B","C","D","E","F","G","H","I","J","K","L","M","N","O","P","Q","R","S","T","U","V","W","X","Y","Z">>
LowerCase == <<"a","b","c","d","e","f","g","h","i","j","k","l","m","n","o","p","q","r","s","t","u","v","w","x","y","z">>
Digits == <<"0","1","2","3","4","5","6","7","8","9">>

\* The characters the model uses, in ASCII order.
Ascii ==
    <<"\t", "\n", " ", "#", "$", "&", "*", "+", "-", ".", "/">> \o Digits \o <<"<", ">">>
    \o UpperCase \o <<"_">> \o LowerCase \o <<"|">>

Chars == { Ascii[i] : i \in 1..Len(Ascii) }

OrdOf == [c \in Chars |-> CHOOSE i \in 1..Len(Ascii) : Ascii[i] = c]
Ord(c) == OrdOf[c]

UpperOf ==
    [c \in Chars |->
        IF \E i \in 1..Len(LowerCase) : LowerCase[i] = c
        THEN UpperCase[CHOOSE i \in 1..Len(LowerCase) : LowerCase[i] = c]
        ELSE c]
toupper(c) == UpperOf[c]

isspace(c) == c \in {" ", "\t", "\n"}

Tail2(s, k) == SubSeq(s, k + 1, Len(s))      \* s + k

Min(S) == CHOOSE x \in S : \A y \in S : x <= y
Max(S) == CHOOSE x \in S : \A y \in S : y <= x

\* strspn(s, delims): length of the leading run of delimiter characters
strspn(s, delims) ==
    LET other == { i \in 1..Len(s) : s[i] \notin delims }
    IN  IF other = {} THEN Len(s) ELSE Min(other) - 1

\* strcspn(s, delims): length of the leading run of non-delimiter characters
strcspn(s, delims) ==
    LET hits == { i \in 1..Len(s) : s[i] \in delims }
    IN  IF hits = {} THEN Len(s) ELSE Min(hits) - 1

----------------------------------------------------------------------------
(* Error codes: the index of each message in mos_errors[]                   *)

FR_OK == 0
FR_DISK_ERR == 1
FR_INT_ERR == 2
FR_NO_FILE == 4
FR_NO_PATH == 5
FR_INVALID_PARAMETER == 19
MOS_INVALID_COMMAND == 20
MOS_INVALID_EXECUTABLE == 21
MOS_OUT_OF_MEMORY == 22
MOS_OVERLAPPING_SYSTEM == 24

\* The messages, by error code
mos_errors ==
    << "OK",
       "Error accessing SD card",
       "Internal error",
       "SD card failure",
       "Could not find file",
       "Could not find path",
       "Invalid path name",
       "Access denied or directory full",
       "Access denied",
       "Invalid file/directory object",
       "SD card is write protected",
       "Logical drive number is invalid",
       "Volume has no work area",
       "No valid FAT volume",
       "Error occurred during mkfs",
       "Volume timeout",
       "Volume locked",
       "LFN working buffer could not be allocated",
       "Too many open files",
       "Invalid parameter",
       "Invalid command",
       "Invalid executable",
       "Out of memory",
       "Not implemented",
       "Load overlaps system area",
       "Bad string" >>

mos_errors_count == Len(mos_errors)

\* mos_error(error): the message printed, if any
mos_error(error) ==
    IF error >= 0 /\ error < mos_errors_count THEN <<mos_errors[error + 1]>> ELSE <<>>

\* mos_GETERROR(errno, address, size): the string strncpy copies from.  The
\* table is indexed without a test; past its end the pointer read is
\* whatever lies behind the table, here junk.
mos_GETERROR(errno, junk) ==
    IF errno < mos_errors_count
    THEN [source |-> <<mos_errors[errno + 1]>>, outside |-> FALSE]
    ELSE [source |-> junk, outside |-> TRUE]


----------------------------------------------------------------------------
(* mos_trim and the tokeniser                                              *)

\* mos_trim, first loop: skip leading whitespace and asterisks
SkipLeading(s) ==
    LET other == { i \in 1..Len(s) : ~(isspace(s[i]) \/ s[i] = "*") }
    IN  Tail2(s, IF other = {} THEN Len(s) ELSE Min(other) - 1)

\* mos_trim, second loop: while (ptr > s && isspace(*ptr)) ptr--; ptr[1] = 0
CutTrailing(s) ==
    IF s = <<>> THEN s
    ELSE SubSeq(s, 1, Max({1} \cup { i \in 2..Len(s) : ~isspace(s[i]) }))

\* A variant whose first loop skips white space only
mos_trim_keepAsterisk(s) ==
    LET other == { i \in 1..Len(s) : ~isspace(s[i]) }
    IN  CutTrailing(Tail2(s, IF other = {} THEN Len(s) ELSE Min(other) - 1))

mos_trim(s) == IF s = <<>> THEN s ELSE CutTrailing(SkipLeading(s))

\* mos_strtok_r with the cursor left on the delimiter instead of past it
mos_strtok_r_onDelimiter(s1, s2) ==
    LET a == Tail2(s1, strspn(s1, s2))
        n == strcspn(a, s2)
    IN  IF a = <<>> THEN [found |-> FALSE, tok |-> <<>>, ptr |-> a]
        ELSE [found |-> TRUE, tok |-> SubSeq(a, 1, n), ptr |-> Tail2(a, n)]

\* mos_strtok_r without the scan over leading delimiters
mos_strtok_r_noSkip(s1, s2) ==
    LET n == strcspn(s1, s2)
    IN  IF s1 = <<>> THEN [found |-> FALSE, tok |-> <<>>, ptr |-> s1]
        ELSE IF n = Len(s1) THEN [found |-> TRUE, tok |-> s1, ptr |-> <<>>]
        ELSE [found |-> TRUE, tok |-> SubSeq(s1, 1, n), ptr |-> Tail2(s1, n + 1)]

\* mos_strtok_r(s1, s2, &ptr) for a non-NULL s1: tok is the token returned
\* (found = FALSE for NULL) and ptr the text the saved cursor points at.
mos_strtok_r(s1, s2) ==
    IF s1 = <<>> THEN [found |-> FALSE, tok |-> <<>>, ptr |-> s1]
    ELSE LET a == Tail2(s1, strspn(s1, s2))
         IN  IF a = <<>> THEN [found |-> FALSE, tok |-> <<>>, ptr |-> a]
             ELSE LET n == strcspn(a, s2)
                  IN  IF n = Len(a)
                      THEN [found |-> TRUE, tok |-> a, ptr |-> <<>>]
                      ELSE [found |-> TRUE, tok |-> SubSeq(a, 1, n), ptr |-> Tail2(a, n + 1)]

----------------------------------------------------------------------------
(* The pattern matcher (strings.c, not part of mos.c): case-insensitive,   *)
(* '*' matches any run of characters, and in abbreviation mode a pattern   *)
(* that is used up matches as a prefix.  0 is a match; otherwise the sign  *)
(* tells on which side of the string the pattern sorts.                    *)

RECURSIVE GlobMatch(_, _, _)
GlobMatch(p, s, abbrev) ==
    IF p = <<>> THEN (s = <<>> \/ abbrev)
    ELSE IF Head(p) = "*"
         THEN \E k \in 0..Len(s) : GlobMatch(Tail(p), Tail2(s, k), abbrev)
         ELSE /\ s # <<>>
              /\ toupper(Head(p)) = toupper(Head(s))
              /\ GlobMatch(Tail(p), Tail(s), abbrev)

RECURSIVE strcasecmp(_, _)
strcasecmp(a, b) ==
    IF a = <<>> THEN (IF b = <<>> THEN 0 ELSE -1)
    ELSE IF b = <<>> THEN 1
    ELSE IF toupper(Head(a)) = toupper(Head(b)) THEN strcasecmp(Tail(a), Tail(b))
    ELSE IF Ord(toupper(Head(a))) < Ord(toupper(Head(b))) THEN -1 ELSE 1

pmatch(pattern, string, abbrev) ==
    IF GlobMatch(pattern, string, abbrev) THEN 0
    ELSE IF strcasecmp(pattern, string) < 0 THEN -1 ELSE 1

----------------------------------------------------------------------------
(* The command table                                                       *)

mosCommands ==
  <<
    [name |-> <<".">>, func |-> "mos_cmdDIR", args |-> TRUE, help |-> "HELP_CAT"],
    [name |-> <<"C","A","T">>, func |-> "mos_cmdDIR", args |-> TRUE, help |-> "HELP_CAT"],
    [name |-> <<"C","D">>, func |-> "mos_cmdCD", args |-> TRUE, help |-> "HELP_CD"],
    [name |-> <<"C","D","I","R">>, func |-> "mos_cmdCD", args |-> TRUE, help |-> "HELP_CD"],
    [name |-> <<"C","L","S">>, func |-> "mos_cmdCLS", args |-> FALSE, help |-> "HELP_CLS"],
    [name |-> <<"C","O","P","Y">>, func |-> "mos_cmdCOPY", args |-> TRUE, help |-> "HELP_COPY"],
    [name |-> <<"C","P">>, func |-> "mos_cmdCOPY", args |-> TRUE, help |-> "HELP_COPY"],
    [name |-> <<"C","R","E","D","I","T","S">>, func |-> "mos_cmdCREDITS", args |-> FALSE, help |-> "HELP_CREDITS"],
    [name |-> <<"D","E","L","E","T","E">>, func |-> "mos_cmdDEL", args |-> TRUE, help |-> "HELP_DELETE"],
    [name |-> <<"D","I","R">>, func |-> "mos_cmdDIR", args |-> TRUE, help |-> "HELP_CAT"],
    [name |-> <<"D","I","S","C">>, func |-> "mos_cmdDISC", args |-> FALSE, help |-> "NULL"],
    [name |-> <<"E","C","H","O">>, func |-> "mos_cmdECHO", args |-> TRUE, help |-> "HELP_ECHO"],
    [name |-> <<"E","R","A","S","E">>, func |-> "mos_cmdDEL", args |-> TRUE, help |-> "HELP_DELETE"],
    [name |-> <<"E","X","E","C">>, func |-> "mos_cmdEXEC", args |-> TRUE, help |-> "HELP_EXEC"],
    [name |-> <<"H","E","L","P">>, func |-> "mos_cmdHELP", args |-> TRUE, help |-> "HELP_HELP"],
    [name |-> <<"J","M","P">>, func |-> "mos_cmdJMP", args |-> TRUE, help |-> "HELP_JMP"],
    [name |-> <<"L","O","A","D">>, func |-> "mos_cmdLOAD", args |-> TRUE, help |-> "HELP_LOAD"],
    [name |-> <<"L","S">>, func |-> "mos_cmdDIR", args |-> TRUE, help |-> "HELP_CAT"],
    [name |-> <<"H","O","T","K","E","Y">>, func |-> "mos_cmdHOTKEY", args |-> TRUE, help |-> "HELP_HOTKEY"],
    [name |-> <<"M","E","M">>, func |-> "mos_cmdMEM", args |-> FALSE, help |-> "HELP_MEM"],
    [name |-> <<"M","K","D","I","R">>, func |-> "mos_cmdMKDIR", args |-> TRUE, help |-> "HELP_MKDIR"],
    [name |-> <<"M","O","U","N","T">>, func |-> "mos_cmdMOUNT", args |-> FALSE, help |-> "HELP_MOUNT"],
    [name |-> <<"M","O","V","E">>, func |-> "mos_cmdREN", args |-> TRUE, help |-> "HELP_RENAME"],
    [name |-> <<"M","V">>, func |-> "mos_cmdREN", args |-> TRUE, help |-> "HELP_RENAME"],
    [name |-> <<"P","R","I","N","T","F">>, func |-> "mos_cmdPRINTF", args |-> TRUE, help |-> "HELP_PRINTF"],
    [name |-> <<"R","E","N","A","M","E">>, func |-> "mos_cmdREN", args |-> TRUE, help |-> "HELP_RENAME"],
    [name |-> <<"R","M">>, func |-> "mos_cmdDEL", args |-> TRUE, help |-> "HELP_DELETE"],
    [name |-> <<"R","U","N">>, func |-> "mos_cmdRUN", args |-> TRUE, help |-> "HELP_RUN"],
    [name |-> <<"S","A","V","E">>, func |-> "mos_cmdSAVE", args |-> TRUE, help |-> "HELP_SAVE"],
    [name |-> <<"S","e","t">>, func |-> "mos_cmdSET", args |-> TRUE, help |-> "HELP_SET"],
    [name |-> <<"S","e","t","E","v","a","l">>, func |-> "mos_cmdSETEVAL", args |-> TRUE, help |-> "HELP_SETEVAL"],
    [name |-> <<"S","e","t","M","a","c","r","o">>, func |-> "mos_cmdSETMACRO", args |-> TRUE, help |-> "HELP_SETMACRO"],
    [name |-> <<"S","h","o","w">>, func |-> "mos_cmdSHOW", args |-> TRUE, help |-> "HELP_SHOW"],
    [name |-> <<"T","I","M","E">>, func |-> "mos_cmdTIME", args |-> TRUE, help |-> "HELP_TIME"],
    [name |-> <<"T","Y","P","E">>, func |-> "mos_cmdTYPE", args |-> TRUE, help |-> "HELP_TYPE"],
    [name |-> <<"U","N","S","E","T">>, func |-> "mos_cmdUNSET", args |-> TRUE, help |-> "HELP_UNSET"],
    [name |-> <<"V","D","U">>, func |-> "mos_cmdVDU", args |-> TRUE, help |-> "HELP_VDU"]
  >>

mosCommands_count == Len(mosCommands)

NoCommand == [name |-> <<>>, func |-> "NULL", args |-> FALSE, help |-> "NULL"]

\* The scan of mos_getCommand taking a full name only
ScanCommands_exact(ptr, i) ==
    LET ms == { k \in i..mosCommands_count : pmatch(ptr, mosCommands[k].name, FALSE) = 0 }
    IN  IF ms = {} THEN NoCommand ELSE mosCommands[Min(ms)]

\* The scan of mos_getCommand returning the last match of the table
ScanCommands_last(ptr, i) ==
    LET ms == { k \in i..mosCommands_count : pmatch(ptr, mosCommands[k].name, TRUE) = 0 }
    IN  IF ms = {} THEN NoCommand ELSE mosCommands[Max(ms)]

\* mos_getCommand: the first descriptor, in table order, that the token matches
RECURSIVE ScanCommands(_, _)
ScanCommands(ptr, i) ==
    IF i > mosCommands_count THEN NoCommand
    ELSE IF pmatch(ptr, mosCommands[i].name, TRUE) = 0 THEN mosCommands[i]
    ELSE ScanCommands(ptr, i + 1)

mos_getCommand(ptr) == ScanCommands(ptr, 1)

----------------------------------------------------------------------------
(* Addresses.  UINT24 is scaled to AddrBits bits; the four address          *)
(* constants of defines.h keep their order                                  *)
(*   0 < default load < star load <= last external RAM < system < 2^bits.   *)

AddrBits == 4
AddrMod == 2 ^ AddrBits

MOS_defaultLoadAddress == 2
MOS_starLoadAddress == 8
MOS_externLastRAMaddress == 9
MOS_systemAddress == 11

MaxCommandLength == 246         \* if (strlen(ptr) > 246)

----------------------------------------------------------------------------
(* Files and the loader                                                    *)

\* The bytes at offset 0x40..0x44 of an image: the "MOS" signature and the
\* mode byte.
Header(sig, mode) == [sig |-> sig, mode |-> mode]
NoHeader == Header(FALSE, 0)

\* A file as FatFS presents it: the result of f_open, f_size, the result of
\* f_read, and the header bytes it carries (has = FALSE: the file ends
\* before offset 0x44).
File(open, size, read, has, img) ==
    [open |-> open, size |-> size, read |-> read, has |-> has, img |-> img]

NoFile == File(FR_NO_FILE, 0, FR_OK, FALSE, NoHeader)

f_open(card, filename) == IF filename \in DOMAIN card THEN card[filename] ELSE NoFile

\* mos_LOAD(filename, address, size) on the card: fr is the value returned,
\* br the number of bytes f_read copied to address, size the byte count the
\* overlap check and f_read were given.
mos_LOAD(card, filename, address, size) ==
    LET fil == f_open(card, filename)
        fSize == fil.size
        sz == IF size # 0
              THEN (IF fSize < size THEN fSize ELSE size)
              ELSE fSize % AddrMod
    IN  IF fil.open # FR_OK
        THEN [fr |-> fil.open, br |-> 0, size |-> size, read |-> FALSE]
        ELSE IF address <= MOS_externLastRAMaddress
                /\ (address + sz) % AddrMod > MOS_systemAddress
             THEN [fr |-> MOS_OVERLAPPING_SYSTEM, br |-> 0, size |-> sz, read |-> FALSE]
             ELSE [fr |-> fil.read,
                   br |-> IF fil.read = FR_OK THEN sz ELSE 0,
                   size |-> sz, read |-> TRUE]

\* RAM at address+0x40..0x44 after mos_LOAD: a read that copied the file's
\* header bytes replaces what was there, anything else leaves it.
LoadedHeaders(h, card, filename, address, size) ==
    LET fil == f_open(card, filename)
        r == mos_LOAD(card, filename, address, size)
    IN  IF r.fr = FR_OK /\ r.br > 0 /\ fil.has /\ address \in DOMAIN h
        THEN [h EXCEPT ![address] = fil.img]
        ELSE h

LoadRecord(card, filename, address, size) ==
    LET r == mos_LOAD(card, filename, address, size)
    IN  [path |-> filename, addr |-> address, fr |-> r.fr, br |-> r.br]

----------------------------------------------------------------------------
(* Running a loaded binary                                                 *)

\* mos_execMode without the signature test
mos_execMode_unsigned(h, addr) == h[addr].mode

\* mos_execMode: the mode byte when the signature is there, else 0xFF
mos_execMode(h, addr) == IF h[addr].sig THEN h[addr].mode ELSE 255

Call(kind, who, addr, arg) == [kind |-> kind, who |-> who, addr |-> addr, arg |-> arg]

\* mos_runBin(addr): params is mos_strtok_ptr, r the value the entered
\* program returns.
mos_runBin(h, addr, params, r) ==
    LET mode == mos_execMode(h, addr)
    IN  CASE mode = 0 -> [ret |-> r, calls |-> <<Call("exec16", <<>>, addr, params)>>]
          [] mode = 1 -> [ret |-> r, calls |-> <<Call("exec24", <<>>, addr, params)>>]
          [] OTHER    -> [ret |-> MOS_INVALID_EXECUTABLE, calls |-> <<>>]

----------------------------------------------------------------------------
(* The system-variable store (mos_sysvars.c, not part of mos.c): a list     *)
(* kept in ascending case-insensitive label order, searched by one          *)
(* primitive.  A variable pointer is an index into the list, 0 for NULL.    *)

MOS_VAR_STRING == "String"
MOS_VAR_NUMBER == "Number"
MOS_VAR_MACRO == "Macro"
MOS_VAR_CODE == "Code"

\* One entry: str is the owned text of a String or Macro, num the value of a
\* Number, code the accessor pair of a Code variable.
Variable(label, type, str, num, code) ==
    [label |-> label, type |-> type, str |-> str, num |-> num, code |-> code]

\* The accessor pairs defined before mos_setupSystemVariables
CodeVars ==
    [timeVar     |-> [read |-> TRUE,  write |-> TRUE],
     dateVar     |-> [read |-> TRUE,  write |-> FALSE],
     yearVar     |-> [read |-> TRUE,  write |-> TRUE],
     cwdVar      |-> [read |-> TRUE,  write |-> FALSE],
     keyboardVar |-> [read |-> FALSE, write |-> TRUE],
     consoleVar  |-> [read |-> FALSE, write |-> TRUE]]

\* getSystemVariable(pattern, &var): scan from the head when var is NULL,
\* else from the entry after var.  res = 0 and var the match; or res = -1
\* and var the last entry scanned whose label sorts before the pattern.
RECURSIVE ScanVariables(_, _, _, _)
ScanVariables(list, pattern, i, pred) ==
    IF i > Len(list) THEN [res |-> -1, var |-> pred]
    ELSE LET m == pmatch(pattern, list[i].label, FALSE)
         IN  IF m = 0 THEN [res |-> 0, var |-> i]
             ELSE ScanVariables(list, pattern, i + 1, IF m > 0 THEN i ELSE pred)

getSystemVariable(list, pattern, var) == ScanVariables(list, pattern, var + 1, 0)

\* insertSystemVariable(newVar, before): after `before`, at the head for NULL
insertSystemVariable(list, newVar, before) ==
    SubSeq(list, 1, before) \o <<newVar>> \o SubSeq(list, before + 1, Len(list))

\* removeSystemVariable(var): unlink and free
removeSystemVariable(list, var) ==
    SubSeq(list, 1, var - 1) \o SubSeq(list, var + 1, Len(list))

\* createAndInsertSystemVariable(label, type, value) at start-up
createAndInsertSystemVariable(list, v) ==
    LET g == getSystemVariable(list, v.label, 0)
    IN  IF g.res = 0 THEN [list EXCEPT ![g.var] = v]
        ELSE insertSystemVariable(list, v, g.var)

CLI_Prompt == <<"C","L","I","$","P","r","o","m","p","t">>
Current_Dir == <<"C","u","r","r","e","n","t","$","D","i","r">>
Sys_Time == <<"S","y","s","$","T","i","m","e">>
Sys_Date == <<"S","y","s","$","D","a","t","e">>
Sys_Year == <<"S","y","s","$","Y","e","a","r">>
Keyboard == <<"K","e","y","b","o","a","r","d">>
Console == <<"C","o","n","s","o","l","e">>
DefaultPrompt == <<"<">> \o Current_Dir \o <<">", " ", "*">>

RECURSIVE RegisterAll(_, _)
RegisterAll(list, vs) ==
    IF vs = <<>> THEN list
    ELSE RegisterAll(createAndInsertSystemVariable(list, Head(vs)), Tail(vs))

mos_setupSystemVariables ==
    RegisterAll(<<>>,
      << Variable(Sys_Time, MOS_VAR_CODE, <<>>, 0, "timeVar"),
         Variable(Sys_Date, MOS_VAR_CODE, <<>>, 0, "dateVar"),
         Variable(Sys_Year, MOS_VAR_CODE, <<>>, 0, "yearVar"),
         Variable(Current_Dir, MOS_VAR_CODE, <<>>, 0, "cwdVar"),
         Variable(CLI_Prompt, MOS_VAR_MACRO, DefaultPrompt, 0, "NULL"),
         Variable(Keyboard, MOS_VAR_CODE, <<>>, 0, "keyboardVar"),
         Variable(Console, MOS_VAR_CODE, <<>>, 0, "consoleVar") >>)

----------------------------------------------------------------------------
(* Macro expansion (mos_sysvars.c): <Name> is replaced by the value of the  *)
(* variable Name, nothing for an unknown name; a Macro value is expanded    *)
(* in turn, to a bounded depth.                                             *)

MaxExpandDepth == 2

RECURSIVE itoa(_)
itoa(n) == IF n < 10 THEN <<Digits[n + 1]>> ELSE itoa(n \div 10) \o <<Digits[(n % 10) + 1]>>

\* What the read accessor of a Code variable yields
ReadAccessor(code) ==
    CASE code = "cwdVar"  -> <<"/", "d", "o", "c", "s">>
      [] code = "timeVar" -> <<"1", "2">>
      [] code = "dateVar" -> <<"3">>
      [] code = "yearVar" -> <<"2", "0">>
      [] OTHER            -> <<>>

IndexOf(s, c) == IF \E i \in 1..Len(s) : s[i] = c
                 THEN CHOOSE i \in 1..Len(s) : s[i] = c /\ \A j \in 1..(i - 1) : s[j] # c
                 ELSE 0

RECURSIVE expandText(_, _, _)
expandVariableValue(list, v, depth) ==
    CASE v.type = MOS_VAR_NUMBER -> itoa(v.num)
      [] v.type = MOS_VAR_CODE   -> ReadAccessor(v.code)
      [] v.type = MOS_VAR_MACRO  -> IF depth = 0 THEN <<>> ELSE expandText(list, v.str, depth - 1)
      [] OTHER                   -> v.str

expandText(list, text, depth) ==
    IF text = <<>> THEN <<>>
    ELSE LET close == IndexOf(text, ">")
         IN  IF Head(text) = "<" /\ close > 0
             THEN LET g == getSystemVariable(list, SubSeq(text, 2, close - 1), 0)
                      sub == IF g.res = 0
                             THEN expandVariableValue(list, list[g.var], depth)
                             ELSE <<>>
                  IN  sub \o expandText(list, Tail2(text, close), depth)
             ELSE <<Head(text)>> \o expandText(list, Tail(text), depth)

\* expandMacro(source)
expandMacro(list, source) == expandText(list, source, MaxExpandDepth)

\* expandVariable(var, showWriteOnly): the value of a variable as text,
\* NULL (ok = FALSE) for a Code variable that cannot be read
expandVariable(list, v, showWriteOnly) ==
    IF v.type = MOS_VAR_CODE /\ ~CodeVars[v.code].read
    THEN [ok |-> FALSE, text |-> <<>>]
    ELSE [ok |-> TRUE, text |-> expandVariableValue(list, v, MaxExpandDepth)]

----------------------------------------------------------------------------
(* The hotkey table, the file table and the keyboard                       *)

\* for (key = 0; key < 12; key++): the slots of hotkey_strings
HotkeyCount == 12

\* A slot of hotkey_strings: ptr is "NULL", "heap" for a buffer of umm_malloc
\* in use, "freed" for one handed to umm_free; str the text in the buffer.
NullString == [ptr |-> "NULL", str |-> <<>>]
HeapString(str) == [ptr |-> "heap", str |-> str]

\* The slots of mosFileObjects, scaled
MOS_maxOpenFiles == 3

\* A FIL of FatFS: the file it was last opened on, and whether f_open has
\* succeeded on it with no f_close since
NoFIL == [name |-> <<>>, open |-> FALSE]

\* mos_FOPEN from slot i on: the first slot with free == 0 on which f_open
\* succeeds is marked and its handle i + 1 (here i, slots counted from 1)
\* returned; frs[i] is the result of f_open on slot i.  A failed f_open
\* leaves the FIL not open.
RECURSIVE FOpenFrom(_, _, _, _)
FOpenFrom(table, filename, frs, i) ==
    IF i > MOS_maxOpenFiles THEN [table |-> table, ret |-> 0]
    ELSE IF table[i].free # 0 THEN FOpenFrom(table, filename, frs, i + 1)
    ELSE IF frs[i] = FR_OK
    THEN [table |-> [table EXCEPT ![i] = [free |-> 1,
                                          fileObject |-> [name |-> filename, open |-> TRUE]]],
          ret |-> i]
    ELSE FOpenFrom([table EXCEPT ![i].fileObject = [name |-> filename, open |-> FALSE]],
                   filename, frs, i + 1)

\* mos_FOPEN(filename, mode)
mos_FOPEN(table, filename, frs) == FOpenFrom(table, filename, frs, 1)

\* if (mosFileObjects[i].free > 0) { f_close(...); mosFileObjects[i].free = 0; }
CloseSlot(slot) ==
    IF slot.free > 0 THEN [free |-> 0, fileObject |-> [slot.fileObject EXCEPT !.open = FALSE]]
    ELSE slot

\* mos_FCLOSE(fh): the slot of a handle in 1..MOS_maxOpenFiles, and every
\* slot for any other handle
mos_FCLOSE(table, fh) ==
    IF fh > 0 /\ fh <= MOS_maxOpenFiles
    THEN [table |-> [table EXCEPT ![fh] = CloseSlot(@)], ret |-> fh]
    ELSE [table |-> [i \in 1..MOS_maxOpenFiles |-> CloseSlot(table[i])], ret |-> fh]

\* mos_GETFIL with no test of the free flag
mos_GETFIL_anySlot(table, fh) ==
    IF fh > 0 /\ fh <= MOS_maxOpenFiles THEN fh ELSE 0

\* mos_GETFIL(fh): the address of the FIL of the handle, here the handle, or 0
mos_GETFIL(table, fh) ==
    IF fh > 0 /\ fh <= MOS_maxOpenFiles /\ table[fh].free > 0 THEN fh ELSE 0

\* No call of mos_getkey is under way; stored and returned are the key
\* codes the interrupt has stored and mos_getkey has returned so far
NotInGetkey == [pc |-> "idle", ch |-> 0, stored |-> <<>>, returned |-> <<>>]

----------------------------------------------------------------------------
(* The state a command works on, and what its environment does during it   *)

\* ptr: mos_strtok_ptr; hdr: RAM headers; sysvars: the store; loads, calls:
\* what has been loaded and invoked so far; ret: the value returned;
\* hotkeys: hotkey_strings.
State(ptr, h, list, ld, cl, r, keys) ==
    [ptr |-> ptr, hdr |-> h, sysvars |-> list, loads |-> ld, calls |-> cl, ret |-> r,
     hotkeys |-> keys]

Returning(st, r) == [st EXCEPT !.ret = r]

\* mos_parseString(NULL, &token): the next space-delimited token
mos_parseString(ptr) == mos_strtok_r(ptr, {" "})

\* while (isspace(*mos_strtok_ptr)) mos_strtok_ptr++;
SkipSpace(s) ==
    LET other == { i \in 1..Len(s) : ~isspace(s[i]) }
    IN  Tail2(s, IF other = {} THEN Len(s) ELSE Min(other) - 1)

\* updateSystemVariable(var, type, value): a Code variable is written
\* through its write accessor and fails without one; any other entry gets
\* the new type and payload.
\* A variant that writes over an entry of any type
updateSystemVariable_anyType(st, var, nv) ==
    [st EXCEPT !.sysvars[var] = [nv EXCEPT !.label = st.sysvars[var].label],
               !.ret = FR_OK]

updateSystemVariable(st, var, nv) ==
    LET old == st.sysvars[var]
    IN  IF old.type = MOS_VAR_CODE
        THEN IF CodeVars[old.code].write
             THEN [st EXCEPT !.calls = Append(@, Call("write", old.label, 0, nv.str)),
                             !.ret = FR_OK]
             ELSE Returning(st, FR_INT_ERR)
        ELSE [st EXCEPT !.sysvars[var] = [nv EXCEPT !.label = old.label],
                        !.ret = FR_OK]

\* SetVariable linking every new entry at the head of the list
SetVariable_atHead(st, token, nv, oom, owned) ==
    LET g == getSystemVariable(st.sysvars, token, 0)
    IN  IF g.res = 0
        THEN [st EXCEPT !.sysvars[g.var] = [nv EXCEPT !.label = st.sysvars[g.var].label],
                        !.ret = FR_OK]
        ELSE [st EXCEPT !.sysvars = insertSystemVariable(@, nv, 0), !.ret = FR_OK]

\* umm_malloc and umm_free of a buffer of the command, in the order made
Allocating(st, buffers) ==
    [st EXCEPT !.calls = @ \o [i \in 1..Len(buffers) |->
                                  Call("umm_malloc", buffers[i], 0, <<>>)]]
Freeing(st, buffers) ==
    [st EXCEPT !.calls = @ \o [i \in 1..Len(buffers) |->
                                  Call("umm_free", buffers[i], 0, <<>>)]]

\* The tail shared by SET, SETMACRO and SETEVAL: look the token up, update
\* the entry found or create one and splice it after the entry the failed
\* lookup left in var.  oom = "entry": createSystemVariable returns NULL,
\* and the command frees the buffers in owned.
SetVariable(st, token, nv, oom, owned) ==
    LET g == getSystemVariable(st.sysvars, token, 0)
    IN  IF g.res = 0 THEN updateSystemVariable(st, g.var, nv)
        ELSE IF oom = "entry" THEN Returning(Freeing(st, owned), FR_INT_ERR)
        ELSE [st EXCEPT !.sysvars = insertSystemVariable(@, nv, g.var), !.ret = FR_OK]

\* A variant that asks for the name token only
SetArguments_nameOnly(ptr) ==
    LET t == mos_parseString(ptr)
    IN  [ok |-> t.found, token |-> t.tok,
         ptr |-> IF t.found THEN SkipSpace(t.ptr) ELSE t.ptr]

\* The part every SET-family command starts with: the name token, then the
\* value text after any further whitespace.
SetArguments(ptr) ==
    LET t == mos_parseString(ptr)
    IN  [ok |-> t.found /\ SkipSpace(t.ptr) # <<>>,
         token |-> t.tok,
         ptr |-> IF t.found THEN SkipSpace(t.ptr) ELSE t.ptr]

\* mos_cmdSET storing the value text unexpanded as a Macro
mos_cmdSET_asMacro(st, env) ==
    LET a == SetArguments(st.ptr)
        s == [st EXCEPT !.ptr = a.ptr]
    IN  IF ~a.ok THEN Returning(s, FR_INVALID_PARAMETER)
        ELSE IF env.oom = "value" THEN Returning(s, FR_INT_ERR)
        ELSE SetVariable(Allocating(s, <<"newValue">>), a.token,
                 Variable(a.token, MOS_VAR_MACRO, a.ptr, 0, "NULL"), env.oom, <<"newValue">>)

\* mos_cmdSET: store the expanded value text as a String
mos_cmdSET(st, env) ==
    LET a == SetArguments(st.ptr)
        s == [st EXCEPT !.ptr = a.ptr]
    IN  IF ~a.ok THEN Returning(s, FR_INVALID_PARAMETER)
        ELSE IF env.oom = "value" THEN Returning(s, FR_INT_ERR)
        ELSE SetVariable(Allocating(s, <<"newValue">>), a.token,
                 Variable(a.token, MOS_VAR_STRING, expandMacro(s.sysvars, a.ptr), 0, "NULL"),
                 env.oom, <<"newValue">>)

\* mos_cmdSETMACRO storing the expansion of the value text
mos_cmdSETMACRO_expanded(st, env) ==
    LET a == SetArguments(st.ptr)
        s == [st EXCEPT !.ptr = a.ptr]
    IN  IF ~a.ok THEN Returning(s, FR_INVALID_PARAMETER)
        ELSE IF env.oom = "value" THEN Returning(s, FR_INT_ERR)
        ELSE SetVariable(Allocating(s, <<"newValue">>), a.token,
                 Variable(a.token, MOS_VAR_MACRO, expandMacro(s.sysvars, a.ptr), 0, "NULL"),
                 env.oom, <<"newValue">>)

\* mos_cmdSETMACRO: store the value text as it stands as a Macro
mos_cmdSETMACRO(st, env) ==
    LET a == SetArguments(st.ptr)
        s == [st EXCEPT !.ptr = a.ptr]
    IN  IF ~a.ok THEN Returning(s, FR_INVALID_PARAMETER)
        ELSE IF env.oom = "value" THEN Returning(s, FR_INT_ERR)
        ELSE SetVariable(Allocating(s, <<"newValue">>), a.token,
                 Variable(a.token, MOS_VAR_MACRO, a.ptr, 0, "NULL"), env.oom, <<"newValue">>)

\* What evaluateExpression allocated: the record, and the text of a String
EvaluationBuffers(e) ==
    IF e.type = MOS_VAR_STRING THEN <<"evaluation", "result">> ELSE <<"evaluation">>

\* mos_cmdSETEVAL: store what evaluateExpression made of the value text.
\* env.eval is that evaluation: status (FR_OK or an error), type and result.
mos_cmdSETEVAL(st, env) ==
    LET a == SetArguments(st.ptr)
        s == [st EXCEPT !.ptr = a.ptr]
        e == env.eval
    IN  IF ~a.ok THEN Returning(s, FR_INVALID_PARAMETER)
        ELSE IF env.oom = "value" THEN Returning(s, FR_INT_ERR)
        ELSE IF e.status # FR_OK
        THEN Returning(Freeing(Allocating(s, <<"evaluation">>), <<"evaluation">>), e.status)
        ELSE Freeing(SetVariable(Allocating(s, EvaluationBuffers(e)), a.token,
                                 Variable(a.token, e.type, e.str, e.num, "NULL"),
                                 env.oom, <<"evaluation">>),
                     IF env.oom = "entry"
                        /\ getSystemVariable(s.sysvars, a.token, 0).res # 0
                     THEN <<>> ELSE <<"evaluation">>)

\* The number of lookups the loop of mos_cmdUNSET is followed for
UnsetFuel == 16

\* The loop of mos_cmdUNSET restarting from the head after a Code variable
RECURSIVE UnsetLoop_fromHead(_, _, _, _, _)
UnsetLoop_fromHead(list, token, var, stale, fuel) ==
    IF fuel = 0 THEN [list |-> list, lookups |-> 0, done |-> FALSE, freed |-> 0]
    ELSE LET g == getSystemVariable(list, token, var)
             r == IF list[g.var].type # MOS_VAR_CODE
                  THEN [UnsetLoop_fromHead(removeSystemVariable(list, g.var), token,
                                           g.var - 1, stale, fuel - 1)
                           EXCEPT !.freed = @ + 1]
                  ELSE UnsetLoop_fromHead(list, token, 0, stale, fuel - 1)
         IN  IF g.res # 0 THEN [list |-> list, lookups |-> 1, done |-> TRUE, freed |-> 0]
             ELSE [r EXCEPT !.lookups = @ + 1]

\* mos_cmdUNSET's loop: remove every match that is not a Code variable.
\* After a removal the next lookup is handed var, the entry just freed, and
\* starts from its next field: stale = "intact" when that field still holds
\* the old successor, "null" when it reads as NULL (the lookup then finds
\* nothing more).
\* list is the store left, lookups the calls of getSystemVariable made,
\* done whether the loop ended within the fuel, freed the number of lookups
\* handed an entry that removeSystemVariable had freed.
RECURSIVE UnsetLoop(_, _, _, _, _)
UnsetLoop(list, token, var, stale, fuel) ==
    IF fuel = 0 THEN [list |-> list, lookups |-> 0, done |-> FALSE, freed |-> 0]
    ELSE LET g == getSystemVariable(list, token, var)
             r == IF list[g.var].type # MOS_VAR_CODE
                  THEN IF stale = "intact"
                       THEN [UnsetLoop(removeSystemVariable(list, g.var), token,
                                       g.var - 1, stale, fuel - 1)
                                EXCEPT !.freed = @ + 1]
                       ELSE [list |-> removeSystemVariable(list, g.var),
                             lookups |-> 1, done |-> TRUE, freed |-> 1]
                  ELSE UnsetLoop(list, token, g.var, stale, fuel - 1)
         IN  IF g.res # 0 THEN [list |-> list, lookups |-> 1, done |-> TRUE, freed |-> 0]
             ELSE [r EXCEPT !.lookups = @ + 1]

UnsetFrom(list, token, var, stale) == UnsetLoop(list, token, var, stale, UnsetFuel).list

mos_cmdUNSET(st, env) ==
    LET t == mos_parseString(st.ptr)
        s == [st EXCEPT !.ptr = t.ptr]
    IN  IF ~t.found THEN Returning(s, FR_INVALID_PARAMETER)
        ELSE [s EXCEPT !.sysvars = UnsetFrom(@, t.tok, 0, env.stale), !.ret = FR_OK]

\* printEscapedString: a character below 0x20 is put as '|' and the
\* character 0x40 above it
RECURSIVE printEscapedString(_)
printEscapedString(value) ==
    IF value = <<>> THEN <<>>
    ELSE (CASE Head(value) = "\t" -> <<"|", "I">>
            [] Head(value) = "\n" -> <<"|", "J">>
            [] OTHER -> <<Head(value)>>) \o printEscapedString(Tail(value))

\* What SHOW prints after the label of one entry
ShowText(v) ==
    CASE v.type = MOS_VAR_MACRO  -> printEscapedString(v.str)
      [] v.type = MOS_VAR_NUMBER -> itoa(v.num)
      [] v.type = MOS_VAR_CODE   -> IF CodeVars[v.code].read THEN ReadAccessor(v.code)
                                    ELSE <<"E", "r", "r", "o", "r">>
      [] OTHER                   -> printEscapedString(v.str)

\* The loop of mos_cmdSHOW ending after its first match
ShowLoop_once(list, token, var) ==
    LET g == getSystemVariable(list, token, var)
    IN  IF g.res # 0 THEN <<>>
        ELSE <<Call("show", list[g.var].label, g.var, ShowText(list[g.var]))>>

\* while (getSystemVariable(token, &var) == 0) { print the entry }
RECURSIVE ShowLoop(_, _, _)
ShowLoop(list, token, var) ==
    LET g == getSystemVariable(list, token, var)
    IN  IF g.res # 0 THEN <<>>
        ELSE <<Call("show", list[g.var].label, g.var, ShowText(list[g.var]))>>
             \o ShowLoop(list, token, g.var)

\* mos_cmdSHOW: every variable matching the pattern, "*" when none is given
mos_cmdSHOW(st, env) ==
    LET t == mos_parseString(st.ptr)
        s == [st EXCEPT !.ptr = t.ptr]
        token == IF t.found THEN t.tok ELSE <<"*">>
    IN  [s EXCEPT !.calls = @ \o ShowLoop(s.sysvars, token, 0), !.ret = FR_OK]

\* mos_input printing the text of CLI$Prompt as it is stored
mos_input_raw(st, oom, key) ==
    LET g == getSystemVariable(st.sysvars, CLI_Prompt, 0)
        found == g.res = 0 /\ oom # "value"
        prompt == IF found THEN st.sysvars[g.var].str ELSE <<"*">>
    IN  [st EXCEPT !.calls = @ \o <<Call("printf", <<>>, 0, prompt),
                                    Call("umm_free", IF found THEN "heap" ELSE "static", 0, <<>>)>>,
                   !.ret = key]

\* mos_input(buffer, bufferLength): print the expansion of CLI$Prompt, "*"
\* when there is none, free the prompt, and return the key that ended the
\* line edit.  oom = "value": expandVariable returns NULL.
mos_input(st, oom, key) ==
    LET g == getSystemVariable(st.sysvars, CLI_Prompt, 0)
        e == IF g.res = 0 /\ oom # "value"
             THEN expandVariable(st.sysvars, st.sysvars[g.var], FALSE)
             ELSE [ok |-> FALSE, text |-> <<>>]
        prompt == IF e.ok THEN e.text ELSE <<"*">>
    IN  [st EXCEPT !.calls = @ \o <<Call("printf", <<>>, 0, prompt),
                                    Call("umm_free", IF e.ok THEN "heap" ELSE "static", 0, <<>>)>>,
                   !.ret = key]

----------------------------------------------------------------------------
(* Numbers on the command line                                             *)

HexDigits == Digits \o <<"A", "B", "C", "D", "E", "F">>

DigitValue(c, base) ==
    LET u == toupper(c)
    IN  IF \E i \in 1..base : HexDigits[i] = u
        THEN (CHOOSE i \in 1..base : HexDigits[i] = u) - 1
        ELSE -1

\* The value of the longest run of leading digits of p and the text after it
RECURSIVE strtol_digits(_, _, _)
strtol_digits(p, base, acc) ==
    IF p # <<>> /\ DigitValue(Head(p), base) >= 0
    THEN strtol_digits(Tail(p), base, acc * base + DigitValue(Head(p), base))
    ELSE [value |-> acc, e |-> p]

\* The sign of the token p applied to n, what its digits came to; with no
\* digit at all nothing is converted, the value is 0 and e is p
strtol_signed(p, n) ==
    IF n.e = (IF p # <<>> /\ Head(p) \in {"+", "-"} THEN Tail(p) ELSE p)
    THEN [value |-> 0, e |-> p]
    ELSE [value |-> IF Head(p) = "-" THEN 0 - n.value ELSE n.value, e |-> n.e]

\* strtol(p, &e, base) on a token (no white space): an optional sign, then
\* digits.  The tokens of the model stay inside the range of a long.
strtol(p, base) ==
    strtol_signed(p, strtol_digits(IF p # <<>> /\ Head(p) \in {"+", "-"} THEN Tail(p) ELSE p,
                                   base, 0))

\* if (*p == '&') { base = 16; p++; } value = strtol(p, &e, base)
TokenNumber(t) ==
    IF t.found /\ Head(t.tok) = "&" THEN strtol(Tail(t.tok), 16) ELSE strtol(t.tok, 10)

\* if (*e != 0) return 0; *p_Value = value; return 1: the assignment to a
\* UINT24 keeps the low bits of the long
StoreNumber(t, n, old) ==
    [ok |-> t.found /\ n.e = <<>>,
     value |-> IF t.found /\ n.e = <<>> THEN n.value % AddrMod ELSE old,
     ptr |-> t.ptr]

ParseToken(t, old) == StoreNumber(t, TokenNumber(t), old)

\* A variant that puts the cursor back where it was when it fails
RestoredOnFailure(r, ptr) == IF r.ok THEN r ELSE [r EXCEPT !.ptr = ptr]
mos_parseNumber_restoring(ptr, old) ==
    RestoredOnFailure(ParseToken(mos_strtok_r(ptr, {" "}), old), ptr)

\* mos_parseNumber(NULL, &value), *value being old before the call
mos_parseNumber(ptr, old) == ParseToken(mos_strtok_r(ptr, {" "}), old)

RunDone(st, n, r) == [st EXCEPT !.ptr = n.ptr, !.calls = @ \o r.calls, !.ret = r.ret]

RunAt(st, n, env) ==
    RunDone(st, n, mos_runBin(st.hdr, IF n.ok THEN n.value ELSE MOS_defaultLoadAddress,
                              n.ptr, env.tret))

\* mos_cmdRUN: run what is in memory at the given or the default address
mos_cmdRUN(st, env) == RunAt(st, mos_parseNumber(st.ptr, 0), env)

----------------------------------------------------------------------------
(* HOTKEY                                                                  *)

\* if (hotkey_strings[fn_number - 1] != NULL) umm_free(...): the buffer of
\* the slot is handed back to the heap, the slot still points at it
HotkeyFree(st, fn) ==
    IF st.hotkeys[fn].ptr = "NULL" THEN st
    ELSE [st EXCEPT !.hotkeys[fn].ptr = "freed",
                    !.calls = Append(@, Call("umm_free", "hotkey_strings", fn, <<>>))]

\* The slot set to what umm_malloc returned and the text copied into it.
\* oom = "value": umm_malloc returns NULL.
HotkeyStore(st, fn, text, oom) ==
    IF oom = "value"
    THEN [st EXCEPT !.hotkeys[fn] = NullString, !.ret = FR_INT_ERR]
    ELSE [st EXCEPT !.hotkeys[fn] = HeapString(text), !.ret = 0]

\* HOTKEY n with nothing after the number: the slot is freed and set to NULL
HotkeyClear(st, fn) ==
    IF st.hotkeys[fn].ptr # "NULL"
    THEN [HotkeyFree(st, fn) EXCEPT !.hotkeys[fn] = NullString,
                                    !.calls = Append(@, Call("printf", "cleared", fn, <<>>)),
                                    !.ret = 0]
    ELSE [st EXCEPT !.calls = Append(@, Call("printf", "already clear", fn, <<>>)),
                    !.ret = 0]

\* A text that starts and ends with a double quote loses both
Unquoted(text) ==
    IF text[1] = "\"" /\ text[Len(text)] = "\""
    THEN SubSeq(text, 2, Len(text) - 1)
    ELSE text

\* The listing printed by HOTKEY without a number
HotkeyListing(st) ==
    [st EXCEPT !.calls = Append(@, Call("printf", "Hotkey assignments", 0,
                                        [key \in 1..HotkeyCount |-> st.hotkeys[key].str])),
               !.ret = 0]

\* mos_cmdHOTKEY after mos_parseNumber(NULL, &fn_number) gave n
HotkeyAt(st, n, env) ==
    IF ~n.ok THEN HotkeyListing(st)
    ELSE IF n.value < 1 \/ n.value > HotkeyCount
    THEN [st EXCEPT !.calls = Append(@, Call("printf", "Invalid FN-key number.", 0, <<>>)),
                    !.ret = 0]
    ELSE IF Len(n.ptr) < 1 THEN HotkeyClear(st, n.value)
    ELSE HotkeyStore(HotkeyFree([st EXCEPT !.ptr = Unquoted(n.ptr)], n.value),
                     n.value, Unquoted(n.ptr), env.oom)

HotkeyParsed(st, n, env) == HotkeyAt([st EXCEPT !.ptr = n.ptr], n, env)

\* mos_cmdHOTKEY
mos_cmdHOTKEY(st, env) == HotkeyParsed(st, mos_parseNumber(st.ptr, 0), env)

----------------------------------------------------------------------------
(* HELP                                                                    *)

\* The concatenation of a sequence of texts, by halves
RECURSIVE Concat(_)
Concat(texts) ==
    IF Len(texts) = 0 THEN <<>>
    ELSE IF Len(texts) = 1 THEN texts[1]
    ELSE Concat(SubSeq(texts, 1, Len(texts) \div 2))
         \o Concat(SubSeq(texts, Len(texts) \div 2 + 1, Len(texts)))

\* A variant that puts a comma after every alias but the last
AliasLoop_commas(cmd, i, aliases) ==
    LET others == SelectSeq(SubSeq(mosCommands, i, mosCommands_count),
                            LAMBDA c : c.func = cmd.func /\ c.name # cmd.name)
    IN  Concat([k \in 1..Len(others) |->
                  others[k].name \o (IF k < Len(others) THEN <<",", " ">> ELSE <<>>)])

\* The second loop of printCommandInfo from row i on, aliases being the
\* number of aliases still to print: the k-th alias found is printed when
\* aliases - (k - 1) are still to print
AliasLoop(cmd, i, aliases) ==
    LET others == SelectSeq(SubSeq(mosCommands, i, mosCommands_count),
                            LAMBDA c : c.func = cmd.func /\ c.name # cmd.name)
    IN  Concat([k \in 1..Len(others) |->
                  others[k].name
                  \o (IF aliases - (k - 1) = 2 THEN <<" ", "a", "n", "d", " ">>
                      ELSE IF aliases - (k - 1) > 1 THEN <<",", " ">> ELSE <<>>)])

\* printCommandInfo(cmd, full): what it prints, nothing for a command with
\* no help text.  The argument and help texts are named, not spelt out.
printCommandInfo(cmd, full) ==
    LET aliases == Cardinality({ i \in 1..mosCommands_count :
                                   /\ mosCommands[i].func = cmd.func
                                   /\ mosCommands[i].name # cmd.name })
    IN  IF cmd.help = "NULL" THEN <<>>
        ELSE <<Call("printCommandInfo", cmd.name, 0,
                    [args |-> cmd.args,
                     aliases |-> IF aliases > 0
                                 THEN <<" ", "(", "A", "l", "i", "a", "s", "e", "s", ":", " ">> \o AliasLoop(cmd, 1, aliases) \o <<")">>
                                 ELSE <<>>,
                     help |-> IF full THEN cmd.help ELSE "NULL"])>>

\* The names HELP with no argument lists: row 0 is left out
ListOfCommands ==
    LET listed == SelectSeq(Tail(mosCommands), LAMBDA c : c.help # "NULL")
    IN  [i \in 1..Len(listed) |-> listed[i].name]

\* The scan of mos_cmdHELP ending at the first match
HelpScan_first(cmd, hasCmd, i) ==
    LET matches == SelectSeq(SubSeq(mosCommands, i, mosCommands_count),
                             LAMBDA c : pmatch(cmd, c.name, TRUE) = 0)
    IN  IF matches = <<>> THEN [out |-> <<>>, found |-> FALSE]
        ELSE [out |-> printCommandInfo(matches[1], TRUE), found |-> TRUE]

\* for (i ...) if (pmatch(cmd, mosCommands[i].name, MATCH_COMMANDS) == 0):
\* every matching row from i on is printed; the list printed for HELP alone
\* leaves i at the end of the table, which ends the scan
HelpScan(cmd, hasCmd, i) ==
    LET matches == SelectSeq(SubSeq(mosCommands, i, mosCommands_count),
                             LAMBDA c : pmatch(cmd, c.name, TRUE) = 0)
    IN  IF matches = <<>> THEN [out |-> <<>>, found |-> FALSE]
        ELSE IF ~hasCmd
        THEN [out |-> printCommandInfo(matches[1], TRUE)
                      \o <<Call("printf", <<>>, 0, ListOfCommands)>>,
              found |-> TRUE]
        ELSE [out |-> Concat([k \in 1..Len(matches) |->
                                printCommandInfo(matches[k], TRUE)]),
              found |-> TRUE]

\* do { ... } while (mos_parseString(NULL, &cmd))
RECURSIVE HelpWords(_, _, _)
HelpWords(ptr, cmd, hasCmd) ==
    LET r == HelpScan(cmd, hasCmd, 1)
        out == r.out \o (IF r.found THEN <<>>
                         ELSE <<Call("printf", <<>>, 0, <<"C", "o", "m", "m", "a", "n", "d", " ", "n", "o", "t", " ", "f", "o", "u", "n", "d", ":", " ">> \o cmd)>>)
        t == mos_parseString(ptr)
    IN  IF t.found
        THEN LET rest == HelpWords(t.ptr, t.tok, hasCmd)
             IN  [out |-> out \o rest.out, ptr |-> rest.ptr]
        ELSE [out |-> out, ptr |-> t.ptr]

\* mos_cmdHELP
mos_cmdHELP(st, env) ==
    LET t == mos_parseString(st.ptr)
        cmd == IF t.found THEN t.tok ELSE <<"h", "e", "l", "p">>
        brief == [i \in 1..mosCommands_count |-> printCommandInfo(mosCommands[i], FALSE)]
        w == HelpWords(t.ptr, cmd, t.found)
    IN  IF strcasecmp(cmd, <<"a", "l", "l">>) = 0
        THEN [st EXCEPT !.ptr = t.ptr, !.calls = @ \o Concat(brief), !.ret = 0]
        ELSE [st EXCEPT !.ptr = w.ptr, !.calls = @ \o w.out, !.ret = 0]

----------------------------------------------------------------------------
(* mos_exec                                                                *)

Bin == <<".", "b", "i", "n">>
MosDir == <<"/", "m", "o", "s", "/">>
BinDir == <<"/", "b", "i", "n", "/">>

\* Candidates with the system directory named /moslets/
Candidates_moslets(ptr, in_mos) ==
    <<[path |-> <<"/", "m", "o", "s", "l", "e", "t", "s", "/">> \o ptr \o Bin,
       addr |-> MOS_starLoadAddress]>>
    \o (IF in_mos
        THEN <<[path |-> ptr \o Bin, addr |-> MOS_defaultLoadAddress],
               [path |-> BinDir \o ptr \o Bin, addr |-> MOS_defaultLoadAddress]>>
        ELSE <<>>)

\* Candidates with the current directory searched before the system directory
Candidates_cwdFirst(ptr, in_mos) ==
    (IF in_mos THEN <<[path |-> ptr \o Bin, addr |-> MOS_defaultLoadAddress]>> ELSE <<>>)
    \o <<[path |-> MosDir \o ptr \o Bin, addr |-> MOS_starLoadAddress]>>
    \o (IF in_mos THEN <<[path |-> BinDir \o ptr \o Bin, addr |-> MOS_defaultLoadAddress]>>
        ELSE <<>>)

\* Candidates with every load made at the default load address
Candidates_oneAddress(ptr, in_mos) ==
    <<[path |-> MosDir \o ptr \o Bin, addr |-> MOS_defaultLoadAddress]>>
    \o (IF in_mos
        THEN <<[path |-> ptr \o Bin, addr |-> MOS_defaultLoadAddress],
               [path |-> BinDir \o ptr \o Bin, addr |-> MOS_defaultLoadAddress]>>
        ELSE <<>>)

\* The load attempts mos_exec makes for a command word, in order: the path
\* sprintf formats and the address mos_LOAD is given.
Candidates(ptr, in_mos) ==
    <<[path |-> MosDir \o ptr \o Bin, addr |-> MOS_starLoadAddress]>>
    \o (IF in_mos
        THEN <<[path |-> ptr \o Bin, addr |-> MOS_defaultLoadAddress],
               [path |-> BinDir \o ptr \o Bin, addr |-> MOS_defaultLoadAddress]>>
        ELSE <<>>)

\* The search stopped by every error that is not a not-found
SearchStops_anyError(fr) == fr \notin {FR_NO_FILE, FR_NO_PATH}

\* The search stopped by no error
SearchStops_never(fr) == FALSE

\* if (fr == MOS_OVERLAPPING_SYSTEM) return fr;
SearchStops(fr) == fr = MOS_OVERLAPPING_SYSTEM

\* SearchResult testing for FR_NO_FILE alone
SearchResult_fileOnly(fr) == IF fr = FR_NO_FILE THEN MOS_INVALID_COMMAND ELSE fr

\* What mos_exec returns when no candidate was run and none stopped the search
SearchResult(fr) ==
    IF fr = FR_NO_FILE \/ fr = FR_NO_PATH THEN MOS_INVALID_COMMAND ELSE fr

\* The handler of a built-in command.  The variable commands and RUN are
\* followed through; any other handler does its work outside this model and
\* returns env.hres.
RunHandler(st, cmd, env) ==
    CASE cmd.func = "mos_cmdSET"      -> mos_cmdSET(st, env)
      [] cmd.func = "mos_cmdSETMACRO" -> mos_cmdSETMACRO(st, env)
      [] cmd.func = "mos_cmdSETEVAL"  -> mos_cmdSETEVAL(st, env)
      [] cmd.func = "mos_cmdUNSET"    -> mos_cmdUNSET(st, env)
      [] cmd.func = "mos_cmdSHOW"     -> mos_cmdSHOW(st, env)
      [] cmd.func = "mos_cmdRUN"      -> mos_cmdRUN(st, env)
      [] cmd.func = "mos_cmdHELP"     -> mos_cmdHELP(st, env)
      [] cmd.func = "mos_cmdHOTKEY"   -> mos_cmdHOTKEY(st, env)
      [] OTHER                        -> Returning(st, env.hres)

RECURSIVE SearchAndRun(_, _, _)
SearchAndRun(st, cands, env) ==
    LET c == Head(cands)
        l == LoadRecord(env.card, c.path, c.addr, 0)
        s == [st EXCEPT !.loads = Append(@, l),
                        !.hdr = LoadedHeaders(@, env.card, c.path, c.addr, 0)]
    IN  IF l.fr = FR_OK
        THEN LET r == mos_runBin(s.hdr, c.addr, s.ptr, env.tret)
             IN  [s EXCEPT !.calls = @ \o r.calls, !.ret = r.ret]
        ELSE IF SearchStops(l.fr) THEN Returning(s, l.fr)
        ELSE IF Len(cands) = 1 THEN Returning(s, SearchResult(l.fr))
        ELSE SearchAndRun(s, Tail(cands), env)

IsNoOp(ptr) ==
    \/ ptr = <<>>
    \/ Head(ptr) = "#"
    \/ (Head(ptr) = "|" /\ Len(ptr) > 1 /\ ptr[2] = " ")

\* func = cmd->func, made before cmd is tested: null tells that the field
\* was read through the NULL that mos_getCommand returned, and env.junk is
\* what that read gives.
HandlerField(cmd, env) ==
    [func |-> IF cmd = NoCommand THEN env.junk ELSE cmd.func, null |-> cmd = NoCommand]

\* mos_exec(buffer, in_mos)
mos_exec(st, buffer, in_mos, env) ==
    LET line == mos_trim(buffer)
    IN  IF IsNoOp(line) THEN Returning(st, FR_OK)
        ELSE LET t == mos_strtok_r(line, {" "})
                 s == [st EXCEPT !.ptr = t.ptr]
                 cmd == mos_getCommand(t.tok)
                 func == HandlerField(cmd, env).func
             IN  IF cmd # NoCommand /\ func # "NULL"
                 THEN RunHandler(
                          [s EXCEPT !.calls = Append(@, Call("handler", cmd.name, 0, s.ptr))],
                          cmd, env)
                 ELSE IF Len(t.tok) > MaxCommandLength
                      THEN Returning(s, MOS_INVALID_COMMAND)
                      ELSE SearchAndRun(s, Candidates(t.tok, in_mos), env)

\* mos_OSCLI(cmd)
mos_OSCLI(st, cmd, env) == mos_exec(st, cmd, FALSE, env)

\* The batch loop calling mos_exec(buffer, FALSE)
RECURSIVE ExecLines_moslets(_, _, _)
ExecLines_moslets(st, lines, env) ==
    IF lines = <<>> THEN st
    ELSE LET s == mos_exec(st, Head(lines), FALSE, env)
         IN  IF s.ret # FR_OK THEN s ELSE ExecLines_moslets(s, Tail(lines), env)

\* The batch loop going on after a line that failed
RECURSIVE ExecLines_toTheEnd(_, _, _)
ExecLines_toTheEnd(st, lines, env) ==
    IF lines = <<>> THEN st
    ELSE ExecLines_toTheEnd(mos_exec(st, Head(lines), TRUE, env), Tail(lines), env)

\* mos_EXEC(filename, buffer, size): batch is the file, open and lines
RECURSIVE ExecLines(_, _, _)
ExecLines(st, lines, env) ==
    IF lines = <<>> THEN st
    ELSE LET s == mos_exec(st, Head(lines), TRUE, env)
         IN  IF s.ret # FR_OK THEN s ELSE ExecLines(s, Tail(lines), env)

mos_EXEC(st, batch, env) ==
    IF batch.open # FR_OK THEN Returning(st, batch.open)
    ELSE ExecLines(Returning(st, FR_OK), batch.lines, env)

----------------------------------------------------------------------------
(* Inputs                                                                  *)

Sp == <<" ">>
zap == <<"z", "a", "p">>
cat == <<"c", "a", "t">>
run == <<"r", "u", "n">>
Repeat(c, n) == [i \in 1..n |-> c]

\* Lines whose first word is no built-in command
RichLine == <<" ", "*">> \o zap \o Sp \o Sp \o <<"a">> \o Sp \o <<"b">> \o Sp
ExternalLines ==
    { zap,
      RichLine,
      <<"|", "a">> \o Sp \o <<"a">> \o Sp \o <<"b">>,
      Repeat("q", MaxCommandLength),
      Repeat("q", MaxCommandLength + 1) }

\* Lines whose first word is, or abbreviates, a built-in command
BuiltinLines ==
    { cat,
      cat \o Sp \o Sp \o <<"a">> \o Sp \o <<"b">> \o Sp,
      <<".">>,
      <<"*", "C">> \o Sp \o <<"a">> \o Sp \o <<"b">>,
      run,
      run \o Sp \o <<"8">>,
      run \o Sp \o <<"&", "2">>,
      run \o Sp \o <<"8", "x">> }

\* Blank lines and comments
NoOpLines == { <<>>, <<" ", "*", " ">>, <<"#", "a">>, <<"|", " ", "a">>, <<"\n">> }

Lines == ExternalLines \cup BuiltinLines \cup NoOpLines

CommandWord(line) == mos_strtok_r(mos_trim(line), {" "}).tok

\* What a search directory can hold under the name looked up
Good(mode) == File(FR_OK, 1, FR_OK, TRUE, Header(TRUE, mode))
Unsigned == File(FR_OK, 1, FR_OK, TRUE, Header(FALSE, 1))
Short == File(FR_OK, 0, FR_OK, FALSE, NoHeader)
TooBig == File(FR_OK, MOS_systemAddress, FR_OK, TRUE, Header(TRUE, 1))
Unreadable == File(FR_OK, 1, FR_DISK_ERR, TRUE, Header(TRUE, 1))
Failing(fr) == File(fr, 0, FR_OK, FALSE, NoHeader)

SomeFiles == { NoFile, Failing(FR_NO_PATH), Failing(FR_DISK_ERR), Good(1), TooBig }
AllFiles == SomeFiles \cup { Good(0), Good(2), Unsigned, Short, Unreadable }
FewFiles == { NoFile, Good(1) }

Card(word, f1, f2, f3) ==
    LET c == Candidates(word, TRUE)
    IN  (c[1].path :> f1) @@ (c[2].path :> f2) @@ (c[3].path :> f3)

CardsOf(word, s1, s2, s3) ==
    { Card(word, f1, f2, f3) : f1 \in s1, f2 \in s2, f3 \in s3 }

TrampolineReturns == { FR_OK, MOS_OVERLAPPING_SYSTEM }
HandlerResults == { FR_OK, FR_INVALID_PARAMETER }

NoEval == [status |-> FR_INT_ERR, type |-> MOS_VAR_NUMBER, str |-> <<>>, num |-> 0]

Env(card, tret, hres, junk, eval, stale, oom) ==
    [card |-> card, tret |-> tret, hres |-> hres, junk |-> junk,
     eval |-> eval, stale |-> stale, oom |-> oom]

PipelineEnv(card, tret, hres, junk) == Env(card, tret, hres, junk, NoEval, "intact", "none")

\* The environments a line is run in: what the card holds under the three
\* candidate paths of its command word, what the entered program or the
\* handler returns.  The full range of cards goes with one line.
Envs(line, rich) ==
    LET word == CommandWord(line)
    IN  IF line \in NoOpLines \/ Len(word) >= MaxCommandLength
        THEN { PipelineEnv(Card(word, NoFile, NoFile, NoFile), FR_OK, FR_OK, "junk") }
        ELSE IF line \in BuiltinLines
        THEN { PipelineEnv(c, t, h, "NULL") :
                 c \in CardsOf(word, FewFiles, FewFiles, {NoFile}),
                 t \in TrampolineReturns, h \in HandlerResults }
        ELSE IF line = RichLine /\ rich
        THEN { PipelineEnv(c, t, FR_OK, "junk") :
                 c \in CardsOf(word, AllFiles, SomeFiles \cup {Good(0)}, SomeFiles),
                 t \in TrampolineReturns }
        ELSE { PipelineEnv(c, t, FR_OK, j) :
                 c \in CardsOf(word, SomeFiles, FewFiles, {NoFile}),
                 t \in TrampolineReturns, j \in {"NULL", "junk"} }

BatchLines == { zap \o <<"\n">>, cat \o <<"\n">>, <<"#", "\n">> }
MaxBatch == 2
Batches ==
    { [open |-> FR_NO_FILE, lines |-> <<>>] }
    \cup { [open |-> FR_OK, lines |-> ls] :
             ls \in UNION { [1..n -> BatchLines] : n \in 0..MaxBatch } }

BatchEnvs ==
    { PipelineEnv(c, t, h, "junk") :
        c \in CardsOf(zap, {NoFile, Failing(FR_DISK_ERR), Good(1)}, {NoFile, Good(1), TooBig},
                       {NoFile}),
        t \in TrampolineReturns, h \in HandlerResults }

----------------------------------------------------------------------------
(* The state machine                                                       *)

Idle == [op |-> "idle"]

IdleState == State(mos_strtok_ptr, hdr, sysvars, <<>>, <<>>, FR_OK, hotkey_strings)

Becomes(st, call) ==
    /\ mos_strtok_ptr' = st.ptr
    /\ hdr' = st.hdr
    /\ sysvars' = st.sysvars
    /\ loads' = st.loads
    /\ calls' = st.calls
    /\ ret' = st.ret
    /\ inv' = call
    /\ hotkey_strings' = st.hotkeys
    /\ UNCHANGED <<mosFileObjects, keyascii, getkey>>

Init ==
    /\ mos_strtok_ptr = <<>>
    /\ hdr = [a \in 0..(AddrMod - 1) |-> NoHeader]
    /\ sysvars = mos_setupSystemVariables
    /\ inv = Idle
    /\ loads = <<>>
    /\ calls = <<>>
    /\ ret = FR_OK
    /\ hotkey_strings = [key \in 1..HotkeyCount |-> NullString]
    /\ mosFileObjects = [i \in 1..MOS_maxOpenFiles |-> [free |-> 0, fileObject |-> NoFIL]]
    /\ keyascii = 0
    /\ getkey = NotInGetkey

\* The shell runs a line: mos_exec(buffer, TRUE)
MosExec ==
    /\ inv = Idle
    /\ \E line \in Lines :
         \E env \in Envs(line, TRUE) :
            Becomes(mos_exec(IdleState, line, TRUE, env),
                    [op |-> "mos_exec", line |-> line, in_mos |-> TRUE, env |-> env])

\* A program calls mos_OSCLI(cmd)
MosOSCLI ==
    /\ inv = Idle
    /\ \E line \in Lines :
         \E env \in Envs(line, FALSE) :
            Becomes(mos_OSCLI(IdleState, line, env),
                    [op |-> "mos_OSCLI", line |-> line, in_mos |-> FALSE, env |-> env])

\* mos_EXEC(filename, buffer, size) on a batch file
MosEXEC ==
    /\ inv = Idle
    /\ \E batch \in Batches :
         \E env \in BatchEnvs :
            Becomes(mos_EXEC(IdleState, batch, env),
                    [op |-> "mos_EXEC", batch |-> batch, in_mos |-> TRUE, env |-> env])

\* The caller has the result; the shell is back at its prompt
Prompt ==
    /\ inv # Idle
    /\ inv' = Idle
    /\ loads' = <<>>
    /\ calls' = <<>>
    /\ ret' = FR_OK
    /\ UNCHANGED <<mos_strtok_ptr, hdr, sysvars, hotkey_strings, mosFileObjects, keyascii, getkey>>

Next == MosExec \/ MosOSCLI \/ MosEXEC \/ Prompt

Spec == Init /\ [][Next]_vars

----------------------------------------------------------------------------
(* Properties of one line run by mos_exec                                  *)

\* The call just made ran one line through mos_exec
LineRun == inv.op \in {"mos_exec", "mos_OSCLI"}

TheLine == mos_trim(inv.line)
TheWord == SubSeq(TheLine, 1, strcspn(TheLine, {" "}))

\* The line after its command word and the one space ending it
TheRest == Tail2(TheLine, IF IndexOf(TheLine, " ") = 0 THEN Len(TheLine) ELSE IndexOf(TheLine, " "))

\* The line names an external program: no comment, no built-in, not too long
ExternalRun ==
    /\ LineRun
    /\ ~IsNoOp(TheLine)
    /\ mos_getCommand(TheWord) = NoCommand
    /\ Len(TheWord) <= MaxCommandLength

BuiltinRun == LineRun /\ ~IsNoOp(TheLine) /\ mos_getCommand(TheWord) # NoCommand

SystemPath(w) == <<"/", "m", "o", "s", "/">> \o w \o <<".", "b", "i", "n">>
CurrentPath(w) == w \o <<".", "b", "i", "n">>
BinariesPath(w) == <<"/", "b", "i", "n", "/">> \o w \o <<".", "b", "i", "n">>

SearchOrder(w, in_mos) ==
    IF in_mos THEN <<SystemPath(w), CurrentPath(w), BinariesPath(w)>> ELSE <<SystemPath(w)>>

NotFound(fr) == fr \in {FR_NO_FILE, FR_NO_PATH}
Trampolines == { i \in 1..Len(calls) : calls[i].kind \in {"exec16", "exec24"} }
Handlers == { i \in 1..Len(calls) : calls[i].kind = "handler" }

\* C1: for an external command word within the length bound the loads
\* attempted are the system directory, the current directory, the binaries
\* directory in that order when in_mos, the system directory alone when
\* not; each is attempted only after all before it failed, none after a
\* load that succeeded or reported the overlap.
C1_SearchOrder ==
    ExternalRun =>
        /\ Len(loads) >= 1
        /\ Len(loads) <= Len(SearchOrder(TheWord, inv.in_mos))
        /\ \A i \in 1..Len(loads) : loads[i].path = SearchOrder(TheWord, inv.in_mos)[i]
        /\ \A i \in 1..(Len(loads) - 1) : loads[i].fr \notin {FR_OK, MOS_OVERLAPPING_SYSTEM}

\* A shell line whose system-directory and current-directory loads failed
\* and whose third load succeeded, with all three tried in order
C1_Witness ==
    /\ ExternalRun /\ inv.in_mos
    /\ Len(loads) = 3
    /\ loads[1].fr = FR_NO_FILE /\ loads[2].fr = FR_DISK_ERR /\ loads[3].fr = FR_OK

C4_OverlapAborts ==
    LineRun =>
        \A i \in 1..Len(loads) :
            loads[i].fr = MOS_OVERLAPPING_SYSTEM =>
                /\ i = Len(loads)
                /\ ret = MOS_OVERLAPPING_SYSTEM
                /\ Trampolines = {}

\* The overlap reported for the second candidate while the third holds a
\* program that would load
C4_Witness ==
    /\ ExternalRun /\ inv.in_mos
    /\ Len(loads) = 2
    /\ loads[2].fr = MOS_OVERLAPPING_SYSTEM
    /\ inv.env.card[BinariesPath(TheWord)] = Good(1)

\* The address mos_runBin was called with: by RUN the one on the line or the
\* default, by the search the one of the load that succeeded.
RunBinCalled ==
    \/ BuiltinRun /\ mos_getCommand(TheWord).func = "mos_cmdRUN"
    \/ ExternalRun /\ loads[Len(loads)].fr = FR_OK

RunBinAddress ==
    IF BuiltinRun
    THEN (IF mos_parseNumber(TheRest, 0).ok THEN mos_parseNumber(TheRest, 0).value
          ELSE MOS_defaultLoadAddress)
    ELSE loads[Len(loads)].addr

TrampolineCalls == [i \in 1..Cardinality(Trampolines) |->
                       calls[CHOOSE j \in Trampolines :
                               Cardinality({k \in Trampolines : k < j}) = i - 1]]

\* C5: without the signature at the header offset mos_runBin returns
\* InvalidExecutable and enters nothing; with it, mode byte 0 enters exec16
\* alone, mode byte 1 exec24 alone, any other byte nothing, returning
\* InvalidExecutable.
C5_ModeDispatch ==
    RunBinCalled =>
        LET h == hdr[RunBinAddress]
        IN  IF h.sig /\ h.mode \in {0, 1}
            THEN /\ Cardinality(Trampolines) = 1
                 /\ TrampolineCalls[1].kind = (IF h.mode = 0 THEN "exec16" ELSE "exec24")
                 /\ TrampolineCalls[1].addr = RunBinAddress
            ELSE /\ Trampolines = {}
                 /\ ret = MOS_INVALID_EXECUTABLE

\* RUN finds a signed image with mode byte 0 and enters exec16
C5_Witness ==
    /\ BuiltinRun /\ mos_getCommand(TheWord).func = "mos_cmdRUN"
    /\ hdr[RunBinAddress] = Header(TRUE, 0)
    /\ Cardinality(Trampolines) = 1
    /\ TrampolineCalls[1].kind = "exec16"

\* C6: a line whose first word resolves to a built-in invokes that
\* command's handler once, with the rest of the line unsplit, returns what
\* the handler returns and loads no file.
C6_BuiltinDispatch ==
    BuiltinRun =>
        /\ Handlers = {1}
        /\ calls[1].who = mos_getCommand(TheWord).name
        /\ calls[1].arg = TheRest
        /\ loads = <<>>
        /\ (mos_getCommand(TheWord).func # "mos_cmdRUN" => ret = inv.env.hres)
        /\ (mos_getCommand(TheWord).func = "mos_cmdRUN" =>
               ret = (IF Trampolines = {} THEN MOS_INVALID_EXECUTABLE ELSE inv.env.tret))

\* "cat  a b " run by the shell while cat.bin is in the system directory
\* and in the current directory: CAT's handler gets "a b" with its leading
\* space, nothing is loaded
C6_Witness ==
    /\ BuiltinRun /\ inv.in_mos
    /\ TheWord = <<"c", "a", "t">>
    /\ calls[1].arg = <<" ", "a", " ", "b">>
    /\ inv.env.card[SystemPath(TheWord)] = Good(1)
    /\ inv.env.card[CurrentPath(TheWord)] = Good(1)
    /\ ret = FR_INVALID_PARAMETER

\* C8: when every load attempted was answered file-not-found or
\* path-not-found, mos_exec returns InvalidCommand, after three loads when
\* in_mos and after one when not.
C8_NotFoundIsInvalidCommand ==
    (ExternalRun /\ \A i \in 1..Len(loads) : NotFound(loads[i].fr)) =>
        /\ ret = MOS_INVALID_COMMAND
        /\ Len(loads) = (IF inv.in_mos THEN 3 ELSE 1)

\* Three candidates, the first answered path-not-found, the others
\* file-not-found
C8_Witness ==
    /\ ExternalRun /\ inv.in_mos
    /\ Len(loads) = 3
    /\ loads[1].fr = FR_NO_PATH /\ loads[2].fr = FR_NO_FILE /\ loads[3].fr = FR_NO_FILE
    /\ ret = MOS_INVALID_COMMAND

\* C9: after a load that succeeded, the trampoline mode detection selects
\* is entered with the address of that load (the star load address for the
\* system directory, the default load address for the other two) and with
\* the rest of the line unsplit, and what it returns is what mos_exec
\* returns; an image mode detection rejects is not entered.
C9_TrampolineArguments ==
    (ExternalRun /\ loads[Len(loads)].fr = FR_OK) =>
        LET l == loads[Len(loads)]
        IN  /\ l.addr = (IF l.path = SystemPath(TheWord) THEN MOS_starLoadAddress
                         ELSE MOS_defaultLoadAddress)
            /\ Cardinality(Trampolines) <= 1
            /\ \A i \in Trampolines : calls[i].addr = l.addr /\ calls[i].arg = TheRest
            /\ Len(calls) = Cardinality(Trampolines)
            /\ (Trampolines # {} => ret = inv.env.tret)
            /\ (Trampolines = {} => ret = MOS_INVALID_EXECUTABLE)

\* " *zap  a b " loaded from the system directory and entered at the star
\* load address with " a b", returning the program's value
C9_Witness ==
    /\ ExternalRun
    /\ Len(loads) = 1 /\ loads[1].fr = FR_OK /\ loads[1].addr = MOS_starLoadAddress
    /\ Len(calls) = 1 /\ calls[1].kind = "exec24"
    /\ calls[1].arg = <<" ", "a", " ", "b">>
    /\ inv.env.tret = MOS_OVERLAPPING_SYSTEM /\ ret = MOS_OVERLAPPING_SYSTEM

----------------------------------------------------------------------------
(* Properties of a batch file run by mos_EXEC                              *)

\* char path[256]
PathSize == 256

\* C39: for a first token that matches no built-in, mos_exec reads no field
\* of the null descriptor before the external search starts.
C39_NoNullFieldRead ==
    ExternalRun => ~HandlerField(mos_getCommand(TheWord), inv.env).null

\* The part of C39 that holds: what the read through NULL gives does not
\* reach the test that chooses between the handler and the search; the
\* search is made and no handler is entered.
C39_NullReadUnused ==
    ExternalRun
    => /\ loads # <<>>
       /\ \A i \in 1..Len(calls) : calls[i].kind # "handler"

\* C28: a first word that is no built-in and is longer than
\* MaxCommandLength ends the command with the invalid-command error before
\* any path is formatted or loaded; for a shorter word every path formatted,
\* its terminator included, fits the path buffer.
C28_PathFitsBuffer ==
    (LineRun /\ ~IsNoOp(TheLine) /\ mos_getCommand(TheWord) = NoCommand) =>
        /\ Len(TheWord) > MaxCommandLength =>
             (ret = MOS_INVALID_COMMAND /\ loads = <<>> /\ calls = <<>>)
        /\ Len(TheWord) <= MaxCommandLength => loads # <<>>
        /\ \A i \in 1..Len(loads) : Len(loads[i].path) + 1 <= PathSize

C28_Witness ==
    /\ LineRun
    /\ Len(TheWord) = MaxCommandLength
    /\ Len(loads) = 3
    /\ Len(loads[1].path) + 1 = PathSize
    /\ Len(loads[3].path) + 1 = PathSize

C28_WitnessTooLong ==
    /\ LineRun
    /\ Len(TheWord) = MaxCommandLength + 1
    /\ ret = MOS_INVALID_COMMAND

BatchRun == inv.op = "mos_EXEC"

IsSystemPath(path) == Len(path) >= 5 /\ SubSeq(path, 1, 5) = <<"/", "m", "o", "s", "/">>

\* Line i of the batch run by mos_exec on its own, and the number of the
\* line the batch ends at: the first that fails, else the last
LineAlone(i) ==
    mos_exec(State(<<>>, hdr, sysvars, <<>>, <<>>, FR_OK, hotkey_strings),
             inv.batch.lines[i], TRUE, inv.env)
FailingLines == { i \in 1..Len(inv.batch.lines) : LineAlone(i).ret # FR_OK }
LastLine == IF FailingLines = {} THEN Len(inv.batch.lines) ELSE Min(FailingLines)

\* C34: mos_EXEC runs the lines of the batch file through mos_exec one after
\* the other in file order, up to and including the first line whose result
\* is not OK, and returns the result of that line, OK when every line
\* succeeded; when the file does not open nothing is run and the result is
\* the open error.
C34_BatchInOrder ==
    BatchRun
    => IF inv.batch.open # FR_OK
       THEN ret = inv.batch.open /\ loads = <<>> /\ calls = <<>>
       ELSE /\ calls = Concat([i \in 1..LastLine |-> LineAlone(i).calls])
            /\ loads = Concat([i \in 1..LastLine |-> LineAlone(i).loads])
            /\ ret = IF LastLine = 0 THEN FR_OK ELSE LineAlone(LastLine).ret

\* A batch of two lines whose first line, an unknown command, fails: the
\* built-in of the second line is not entered
C34_Witness ==
    /\ BatchRun
    /\ inv.batch.open = FR_OK
    /\ inv.batch.lines = << zap \o <<"\n">>, cat \o <<"\n">> >>
    /\ LastLine = 1
    /\ ret = MOS_INVALID_COMMAND
    /\ loads # <<>>
    /\ Handlers = {}

BatchStartsExternal ==
    /\ BatchRun
    /\ inv.batch.open = FR_OK
    /\ inv.batch.lines # <<>>
    /\ ~IsNoOp(mos_trim(inv.batch.lines[1]))
    /\ mos_getCommand(mos_trim(inv.batch.lines[1])) = NoCommand

----------------------------------------------------------------------------
(* mos_LOAD called on its own                                              *)

LoadName == <<"f">>

\* Files of every size up to twice the address space
LoadFiles ==
    { File(FR_OK, n, FR_OK, FALSE, NoHeader) : n \in 0..(2 * AddrMod - 1) }
    \cup { NoFile, File(FR_OK, 1, FR_DISK_ERR, FALSE, NoHeader) }

\* A program calls mos_LOAD(filename, address, size)
MosLOAD ==
    /\ inv = Idle
    /\ \E file \in LoadFiles, address \in 0..(AddrMod - 1), size \in 0..(AddrMod - 1) :
         LET card == (LoadName :> file)
         IN  Becomes([IdleState EXCEPT
                         !.loads = <<LoadRecord(card, LoadName, address, size)>>,
                         !.hdr = LoadedHeaders(@, card, LoadName, address, size),
                         !.ret = mos_LOAD(card, LoadName, address, size).fr],
                     [op |-> "mos_LOAD", file |-> file, address |-> address, size |-> size])

NextLoad == MosLOAD \/ Prompt

SpecLoad == Init /\ [][NextLoad]_vars

\* C3, for the requests whose byte count the file can supply in full (so
\* that the requested count and the count to be read are the same number)
\* and a file size that fits the address width: a load that starts in
\* external RAM and whose last byte lies beyond the start of the system
\* area returns the overlap error and copies nothing.
C3_GuardBeforeCopy ==
    LET length == IF inv.size = 0 THEN inv.file.size ELSE inv.size
    IN  (/\ inv.op = "mos_LOAD"
         /\ inv.file.open = FR_OK
         /\ inv.file.size < AddrMod
         /\ length <= inv.file.size
         /\ inv.address <= MOS_externLastRAMaddress
         /\ inv.address + length > MOS_systemAddress)
        => (ret = MOS_OVERLAPPING_SYSTEM /\ loads[1].br = 0)

\* C35: a load that starts at or below the last external-RAM address and
\* whose true last byte (file sizes and sums taken as unbounded numbers)
\* lies beyond the start of the system area reads no bytes into memory.
C35_NoReadOnOverlap ==
    LET length == IF inv.size = 0 \/ inv.file.size < inv.size
                  THEN inv.file.size ELSE inv.size
    IN  (/\ inv.op = "mos_LOAD"
         /\ inv.file.open = FR_OK
         /\ inv.address <= MOS_externLastRAMaddress
         /\ inv.address + length > MOS_systemAddress)
        => loads[1].br = 0

----------------------------------------------------------------------------
(* The variable commands run by the shell                                  *)

Alpha == <<"A", "l", "p", "h", "a">>
Beta == <<"B", "e", "t", "a">>

VarNames == { Alpha, Beta, <<"b", "e", "t", "a">>, <<"*">>, Keyboard, Current_Dir }
VarValues == { <<"1">> }

SetWords == { <<"s", "e", "t">>, <<"s", "e", "t", "m", "a", "c", "r", "o">>,
              <<"s", "e", "t", "e", "v", "a", "l">> }
UnsetWord == <<"u", "n", "s", "e", "t">>
ShowWord == <<"s", "h", "o", "w">>

VarLines ==
    { w \o Sp \o n \o Sp \o Sp \o v : w \in SetWords, n \in VarNames, v \in VarValues }
    \cup { UnsetWord \o Sp \o n : n \in VarNames }
    \cup { w \o Sp \o Alpha \o Sp : w \in SetWords }
    \cup SetWords \cup { UnsetWord }
    \cup { <<"s", "e", "t">> \o Sp \o Sys_Date \o Sp \o <<"1">> }
    \cup { ShowWord \o a : a \in { <<>>, <<" ", "*">>, <<" ", "s", "*">>, Sp \o Alpha } }

\* What evaluateExpression makes of a value text: a number or an error
Evaluations ==
    { [status |-> FR_OK, type |-> MOS_VAR_NUMBER, str |-> <<>>, num |-> 7],
      [status |-> FR_OK, type |-> MOS_VAR_STRING, str |-> <<"x">>, num |-> 0],
      [status |-> FR_INVALID_PARAMETER, type |-> MOS_VAR_NUMBER, str |-> <<>>, num |-> 0] }

VarEnvs(line) ==
    LET f == mos_getCommand(CommandWord(line)).func
        card == Card(CommandWord(line), NoFile, NoFile, NoFile)
    IN  IF f = "mos_cmdUNSET"
        THEN { Env(card, FR_OK, FR_OK, "NULL", NoEval, s, "none") : s \in {"intact", "null"} }
        ELSE IF f = "mos_cmdSHOW"
        THEN { Env(card, FR_OK, FR_OK, "NULL", NoEval, "intact", "none") }
        ELSE IF f = "mos_cmdSETEVAL"
        THEN { Env(card, FR_OK, FR_OK, "NULL", e, "intact", o) :
                 e \in Evaluations, o \in {"none", "value", "entry"} }
        ELSE { Env(card, FR_OK, FR_OK, "NULL", NoEval, "intact", o) :
                 o \in {"none", "value", "entry"} }

\* The shell runs a variable command
MosExecVar ==
    /\ inv = Idle
    /\ \E line \in VarLines :
         \E env \in VarEnvs(line) :
            Becomes(mos_exec(IdleState, line, TRUE, env),
                    [op |-> "mos_exec", line |-> line, in_mos |-> TRUE, env |-> env,
                     before |-> sysvars])

NextVars == MosExecVar \/ Prompt

SpecVars == Init /\ [][NextVars]_vars

\* C10: the entries of the store are in ascending label order (compared
\* without regard to case, as the lookup compares them) after any sequence
\* of SET, SETMACRO, SETEVAL and UNSET commands.
C10_StoreSorted ==
    \A i \in 1..Len(sysvars) : \A j \in 1..Len(sysvars) :
        i < j => strcasecmp(sysvars[i].label, sysvars[j].label) < 0

\* Beta was there and SET Alpha has just created Alpha at the head, before
\* Beta, which a SET spliced in before the start-up variables
C10_Witness ==
    /\ inv.op = "mos_exec"
    /\ CommandWord(inv.line) = <<"s", "e", "t">>
    /\ ret = FR_OK
    /\ Len(sysvars) >= 5
    /\ sysvars[1].label = Alpha /\ sysvars[1].type = MOS_VAR_STRING
    /\ sysvars[1].str = <<"1">>
    /\ sysvars[2].label = Beta
    /\ sysvars[3].label = CLI_Prompt

----------------------------------------------------------------------------
(* Properties of the variable commands                                     *)

\* The call just made ran the variable command handled by f
VarRun(f) ==
    /\ inv.op = "mos_exec"
    /\ "before" \in DOMAIN inv
    /\ mos_getCommand(TheWord).func = f

\* The first argument of the line, and the text after it
TheArguments == Tail2(TheRest, strspn(TheRest, {" "}))
TheName == SubSeq(TheArguments, 1, strcspn(TheArguments, {" "}))
TheValue ==
    LET after == Tail2(TheArguments, Len(TheName))
    IN  Tail2(after, strspn(after, {" ", "\t", "\n"}))

Matches(pattern, label) == pmatch(pattern, label, FALSE) = 0

Entries(list) == { list[i] : i \in 1..Len(list) }

\* C11: after UNSET pattern every Code entry that was there is still there
\* with its accessors, no String, Number or Macro entry whose label matches
\* the pattern remains, and every entry whose label does not match is
\* there unchanged.
C11_UnsetRemovesMatches ==
    (VarRun("mos_cmdUNSET") /\ TheName # <<>>)
    => /\ \A v \in Entries(inv.before) : v.type = MOS_VAR_CODE => v \in Entries(sysvars)
       /\ \A v \in Entries(sysvars) : v.type # MOS_VAR_CODE => ~Matches(TheName, v.label)
       /\ \A v \in Entries(inv.before) : ~Matches(TheName, v.label) => v \in Entries(sysvars)
       /\ Entries(sysvars) \subseteq Entries(inv.before)

\* The part of C11 that does not depend on what the freed entry reads as:
\* Code entries and entries that do not match stay, nothing is added.
C11_UnsetKeepsTheRest ==
    (VarRun("mos_cmdUNSET") /\ TheName # <<>>)
    => /\ \A v \in Entries(inv.before) : v.type = MOS_VAR_CODE => v \in Entries(sysvars)
       /\ \A v \in Entries(inv.before) : ~Matches(TheName, v.label) => v \in Entries(sysvars)
       /\ Entries(sysvars) \subseteq Entries(inv.before)

\* C36: no lookup of UNSET is handed, as the cursor to resume from, an entry
\* that the same command has removed and freed.
C36_CursorNeverFreed ==
    (VarRun("mos_cmdUNSET") /\ TheName # <<>>)
    => UnsetLoop(inv.before, TheName, 0, inv.env.stale, UnsetFuel).freed = 0

\* The part of C36 that holds: a lookup is handed a freed entry only after
\* a removal, so an UNSET that removes nothing never hands one over.
C36_FreedOnlyAfterRemoval ==
    (VarRun("mos_cmdUNSET") /\ TheName # <<>> /\ sysvars = inv.before)
    => UnsetLoop(inv.before, TheName, 0, inv.env.stale, UnsetFuel).freed = 0

C13_RoundTrip ==
    /\ (VarRun("mos_cmdSET") /\ ret = FR_OK /\ IndexOf(TheValue, "<") = 0)
       => LET g == getSystemVariable(sysvars, TheName, 0)
          IN  /\ g.res = 0
              /\ sysvars[g.var].type = MOS_VAR_STRING
              /\ sysvars[g.var].str = TheValue
    /\ (VarRun("mos_cmdUNSET") /\ ret = FR_OK)
       => getSystemVariable(sysvars, TheName, 0).res # 0

\* The name is no pattern and names no Code variable of the store
OwnedName(list) ==
    /\ IndexOf(TheName, "*") = 0
    /\ \A v \in Entries(list) : v.type = MOS_VAR_CODE => ~Matches(TheName, v.label)

\* C13, amended: the round trip holds for a name without a wildcard that
\* is not the name of a Code variable.
C13_RoundTripOwned ==
    /\ (VarRun("mos_cmdSET") /\ ret = FR_OK /\ IndexOf(TheValue, "<") = 0
        /\ OwnedName(inv.before))
       => LET g == getSystemVariable(sysvars, TheName, 0)
          IN  /\ g.res = 0
              /\ sysvars[g.var].type = MOS_VAR_STRING
              /\ sysvars[g.var].str = TheValue
    /\ (VarRun("mos_cmdUNSET") /\ ret = FR_OK /\ OwnedName(inv.before))
       => getSystemVariable(sysvars, TheName, 0).res # 0

\* UNSET Alpha has just removed the String "1" that SET Alpha 1 stored
C13_Witness ==
    /\ VarRun("mos_cmdUNSET")
    /\ TheName = Alpha
    /\ ret = FR_OK
    /\ \E v \in Entries(inv.before) :
         v.label = Alpha /\ v.type = MOS_VAR_STRING /\ v.str = <<"1">>
    /\ getSystemVariable(sysvars, Alpha, 0).res # 0

\* What SHOW printed, entry by entry
Shown == SelectSeq(calls, LAMBDA c : c.kind = "show")

\* The pattern SHOW works with
ShowPattern == IF TheName = <<>> THEN <<"*">> ELSE TheName

\* C14: SHOW prints every entry whose label matches the pattern once, in
\* the ascending label order of the store, and no other entry; without an
\* argument the pattern is "*" and every entry is printed.
C14_ShowVisitsMatches ==
    VarRun("mos_cmdSHOW")
    => LET expected == SelectSeq(sysvars, LAMBDA v : Matches(ShowPattern, v.label))
       IN  /\ sysvars = inv.before
           /\ Len(Shown) = Len(expected)
           /\ \A k \in 1..Len(Shown) : Shown[k].who = expected[k].label
           /\ \A k \in 1..(Len(Shown) - 1) :
                strcasecmp(Shown[k].who, Shown[k + 1].who) < 0
           /\ (TheName = <<>> => Len(Shown) = Len(sysvars))
           /\ ret = FR_OK

\* SHOW s* has printed the three Sys$ variables and nothing else, from a
\* store that holds Alpha as well
C14_Witness ==
    /\ VarRun("mos_cmdSHOW")
    /\ TheName = <<"s", "*">>
    /\ \E v \in Entries(sysvars) : v.label = Alpha
    /\ Len(Shown) = 3
    /\ Shown[1].who = Sys_Date /\ Shown[2].who = Sys_Time /\ Shown[3].who = Sys_Year

SetFamily == { "mos_cmdSET", "mos_cmdSETMACRO", "mos_cmdSETEVAL" }
SetRun == \E f \in SetFamily : VarRun(f)

\* C37: SET, SETMACRO and SETEVAL with name N leave every entry whose label
\* differs from N (compared without case) as it was, also when N holds a '*'.
C37_OnlyNamedEntry ==
    SetRun
    => \A v \in Entries(inv.before) :
          strcasecmp(v.label, TheName) # 0 => v \in Entries(sysvars)

\* The part of C37 that holds: for a name without '*' every entry of a
\* different label is left as it was.
C37_OnlyNamedEntryPlain ==
    (SetRun /\ \A k \in 1..Len(TheName) : TheName[k] # "*")
    => \A v \in Entries(inv.before) :
          strcasecmp(v.label, TheName) # 0 => v \in Entries(sysvars)

\* C24: SET, SETMACRO, SETEVAL and UNSET without a name, and the first
\* three with a name but no value, return the invalid-parameter error and
\* leave the store as it was.
C24_MissingArgument ==
    (  \/ (SetRun \/ VarRun("mos_cmdUNSET")) /\ TheName = <<>>
       \/ SetRun /\ TheValue = <<>> )
    => (ret = FR_INVALID_PARAMETER /\ sysvars = inv.before)

C24_Witness ==
    /\ VarRun("mos_cmdSETMACRO")
    /\ TheName = Alpha
    /\ TheValue = <<>>
    /\ \E e \in Entries(inv.before) : e.label = Alpha
    /\ ret = FR_INVALID_PARAMETER

\* The buffers the command allocated and did not free
Buffers(kind) == { calls[i].who : i \in { j \in 1..Len(calls) : calls[j].kind = kind } }
Leaked == Buffers("umm_malloc") \ Buffers("umm_free")

\* An allocation of the command failed: that of the value, or that of the
\* entry, which is made only when the lookup found no variable
AllocationFailed ==
    /\ SetRun
    /\ TheName # <<>> /\ TheValue # <<>>
    /\ \/ inv.env.oom = "value"
       \/ /\ inv.env.oom = "entry"
          /\ \A e \in Entries(inv.before) : ~Matches(TheName, e.label)
          /\ VarRun("mos_cmdSETEVAL") => inv.env.eval.status = FR_OK

\* C25 as stated: when an allocation of SET, SETMACRO or SETEVAL fails the
\* command returns the out-of-memory error, the store is unchanged and
\* every buffer the command allocated has been freed.
C25_AllocationFailure ==
    AllocationFailed =>
        /\ ret = MOS_OUT_OF_MEMORY
        /\ sysvars = inv.before
        /\ Leaked = {}

\* What does hold: the command returns the internal error, the store is
\* unchanged, and SET and SETMACRO have freed the value buffer; SETEVAL has
\* freed the evaluation record but not the text of a String result.
C25_StoreUnchanged ==
    AllocationFailed =>
        /\ ret = FR_INT_ERR
        /\ sysvars = inv.before
        /\ Leaked \subseteq {"result"}
        /\ ~VarRun("mos_cmdSETEVAL") => Leaked = {}

C25_ResultFreed == AllocationFailed => Leaked = {}

\* The entries the name of the command matches
Targets(list) == { i \in 1..Len(list) : Matches(TheName, list[i].label) }

\* C26: SET on a Code variable with no write accessor returns an error,
\* not the result of creating the variable; no accessor is called, the
\* store is unchanged and no second entry of the name appears.
C26_ReadOnlyRejected ==
    (  /\ VarRun("mos_cmdSET")
       /\ TheValue # <<>>
       /\ inv.env.oom # "value"
       /\ Targets(inv.before) # {}
       /\ LET var == inv.before[Min(Targets(inv.before))]
          IN  var.type = MOS_VAR_CODE /\ ~CodeVars[var.code].write )
    => /\ ret \notin { FR_OK, FR_NO_FILE, FR_NO_PATH }
       /\ \A i \in 1..Len(calls) : calls[i].kind # "write"
       /\ sysvars = inv.before
       /\ Cardinality(Targets(sysvars)) = Cardinality(Targets(inv.before))

C26_Witness ==
    /\ VarRun("mos_cmdSET")
    /\ TheName = Current_Dir
    /\ TheValue = <<"1">>
    /\ inv.env.oom = "none"
    /\ ret = FR_INT_ERR
    /\ Len(sysvars) > 7

----------------------------------------------------------------------------
(* The text functions called on their own                                  *)

LowerOf ==
    [c \in Chars |->
        IF \E i \in 1..Len(UpperCase) : UpperCase[i] = c
        THEN LowerCase[CHOOSE i \in 1..Len(UpperCase) : UpperCase[i] = c]
        ELSE c]

Upper(s) == [i \in 1..Len(s) |-> UpperOf[s[i]]]
Lower(s) == [i \in 1..Len(s) |-> LowerOf[s[i]]]
Mixed(s) == [i \in 1..Len(s) |-> IF i % 2 = 1 THEN LowerOf[s[i]] ELSE UpperOf[s[i]]]

CommandNames == { mosCommands[i].name : i \in 1..mosCommands_count }

\* The names of the table and all their abbreviations, in three letter
\* cases, and some words that are neither
CommandTokens ==
    UNION { UNION { { Upper(SubSeq(n, 1, k)), Lower(SubSeq(n, 1, k)),
                      Mixed(SubSeq(n, 1, k)) } : k \in 1..Len(n) } : n \in CommandNames }
    \cup { zap, <<"D", "I", "R", "S">>, <<"x">>, <<"D", "E", "L", "E", "T", "E", "D">>,
           <<"S", "E", "T", "S">>, <<"Q">> }

\* mos_getCommand(token)
MosGetCommand ==
    /\ inv = Idle
    /\ \E token \in CommandTokens :
         inv' = [op |-> "mos_getCommand", token |-> token, cmd |-> mos_getCommand(token)]
    /\ UNCHANGED <<mos_strtok_ptr, hdr, sysvars, loads, calls, ret,
                   hotkey_strings, mosFileObjects, keyascii, getkey>>

MaxLineLength == 4
TokenChars == { " ", ".", "a", "b" }
RECURSIVE StringsUpTo(_)
StringsUpTo(n) ==
    IF n = 0 THEN { <<>> }
    ELSE LET shorter == StringsUpTo(n - 1)
         IN  shorter \cup { Append(s, c) : s \in { t \in shorter : Len(t) = n - 1 },
                                           c \in TokenChars }

\* The strings over the given characters, up to n long
RECURSIVE StringsOver(_, _)
StringsOver(chars, n) ==
    IF n = 0 THEN { <<>> }
    ELSE LET shorter == StringsOver(chars, n - 1)
         IN  shorter \cup { Append(s, c) : s \in { t \in shorter : Len(t) = n - 1 },
                                           c \in chars }

\* Lines whose first word is a command word and whose rest is what the
\* handler's parse functions find at the cursor
NumberChars == { " ", "&", "1", "x" }
ArgumentTexts ==
    StringsOver(NumberChars, MaxLineLength)
    \cup { <<"6">>, <<"1", "6">>, <<"6", "1">>, <<"-", "1">>, <<"+", "1">>, <<"-">>,
           <<"&", "f">>, <<"&", "F">>, <<"&", "1", "0">>, <<"&", "-", "1">>, <<"&", "g">>,
           <<"1", "-">>, <<"1", "x", " ", "6">>, <<" ", "1", "6", " ", " ", "x">> }
ArgumentLines == { <<"r", " ">> \o text : text \in ArgumentTexts }

TokenLines == StringsUpTo(MaxLineLength) \cup { <<" ", " ", "a", " ", " ", "b", " ">> }
DelimiterSets == { {" "}, {" ", "."}, {} }
MaxTokenCalls == 5

\* mos_strtok(line, delims): the first call on a line
MosStrtokOn(lines, delimiters) ==
    /\ inv = Idle
    /\ \E line \in lines, delims \in delimiters :
         LET r == mos_strtok_r(line, delims)
         IN  /\ mos_strtok_ptr' = r.ptr
             /\ inv' = [op |-> "mos_strtok", line |-> line, delims |-> delims,
                        results |-> <<[found |-> r.found, tok |-> r.tok]>>]
    /\ UNCHANGED <<hdr, sysvars, loads, calls, ret,
                   hotkey_strings, mosFileObjects, keyascii, getkey>>

MosStrtok == MosStrtokOn(TokenLines, DelimiterSets)

\* mos_strtok(NULL, delims): a further call on the same line
MosStrtokNext ==
    /\ inv.op = "mos_strtok"
    /\ Len(inv.results) < MaxTokenCalls
    /\ LET r == mos_strtok_r(mos_strtok_ptr, inv.delims)
       IN  /\ mos_strtok_ptr' = r.ptr
           /\ inv' = [inv EXCEPT !.results = Append(@, [found |-> r.found, tok |-> r.tok])]
    /\ UNCHANGED <<hdr, sysvars, loads, calls, ret,
                   hotkey_strings, mosFileObjects, keyascii, getkey>>

NextText == MosGetCommand \/ MosStrtok \/ MosStrtokNext \/ Prompt

SpecText == Init /\ [][NextText]_vars

\* The token is an abbreviation of the name: a prefix, letter case aside
AbbreviationOf(token, name) ==
    /\ Len(token) <= Len(name)
    /\ \A i \in 1..Len(token) : UpperOf[token[i]] = UpperOf[name[i]]

\* C15: mos_getCommand returns the first descriptor in table order whose
\* name the token abbreviates, letter case aside, and NULL when there is
\* none; DEL resolves to DELETE, DI to DIR, and D to the first name in the
\* table that begins with D.
C15_FirstAbbreviation ==
    inv.op = "mos_getCommand"
    => LET ms == { k \in 1..mosCommands_count : AbbreviationOf(inv.token, mosCommands[k].name) }
       IN  /\ ms = {} => inv.cmd = NoCommand
           /\ ms # {} => inv.cmd = mosCommands[CHOOSE k \in ms : \A j \in ms : k <= j]
           /\ (Upper(inv.token) = <<"D", "E", "L">>
               => inv.cmd.name = <<"D", "E", "L", "E", "T", "E">>)
           /\ (Upper(inv.token) = <<"D", "I">> => inv.cmd.name = <<"D", "I", "R">>)
           /\ (Upper(inv.token) = <<"D">> => inv.cmd.name = <<"D", "E", "L", "E", "T", "E">>)

\* d, which DELETE, DIR and DISC all begin with, has resolved to DELETE
C15_Witness ==
    /\ inv.op = "mos_getCommand"
    /\ inv.token = <<"d">>
    /\ inv.cmd.name = <<"D", "E", "L", "E", "T", "E">>
    /\ inv.cmd.func = "mos_cmdDEL"

\* C16: the full name of every descriptor of the table, in any letter
\* case, resolves to the descriptor of exactly that name.
C16_FullNameResolves ==
    inv.op = "mos_getCommand"
    => \A k \in 1..mosCommands_count :
          Upper(inv.token) = Upper(mosCommands[k].name) => inv.cmd = mosCommands[k]

\* SETEVAL in mixed case has resolved to SetEval, which comes after Set
C16_Witness ==
    /\ inv.op = "mos_getCommand"
    /\ inv.token = Mixed(<<"S", "e", "t", "E", "v", "a", "l">>)
    /\ inv.cmd.name = <<"S", "e", "t", "E", "v", "a", "l">>
    /\ \E k \in 1..mosCommands_count :
         /\ mosCommands[k] = inv.cmd
         /\ \E j \in 1..(k - 1) : AbbreviationOf(mosCommands[j].name, inv.cmd.name)

\* The maximal non-empty delimiter-free runs of a line, left to right
RECURSIVE Runs(_, _)
Runs(line, delims) ==
    LET starts == { i \in 1..Len(line) : line[i] \notin delims }
    IN  IF starts = {} THEN <<>>
        ELSE LET first == Min(starts)
                 stops == { i \in first..Len(line) : line[i] \in delims }
                 last == IF stops = {} THEN Len(line) ELSE Min(stops) - 1
             IN  <<SubSeq(line, first, last)>> \o Runs(Tail2(line, last), delims)

\* The tokens the calls made so far returned
TokensReturned ==
    LET found == SelectSeq(inv.results, LAMBDA r : r.found)
    IN  [i \in 1..Len(found) |-> found[i].tok]

\* C20: the successive calls of the tokenizer return the maximal non-empty
\* delimiter-free runs of the line in order, then no token on every
\* further call, and the cursor stays within the line.
C20_TokensAreRuns ==
    inv.op = "mos_strtok"
    => LET runs == Runs(inv.line, inv.delims)
           n == Len(inv.results)
       IN  /\ \A i \in 1..n :
                IF i <= Len(runs)
                THEN inv.results[i].found /\ inv.results[i].tok = runs[i]
                ELSE ~inv.results[i].found
           /\ \E k \in 0..Len(inv.line) : mos_strtok_ptr = Tail2(inv.line, k)

\* "  a  b " split at spaces: a, b, then no token twice
C20_Witness ==
    /\ inv.op = "mos_strtok"
    /\ inv.line = <<" ", " ", "a", " ", " ", "b", " ">>
    /\ inv.delims = {" "}
    /\ Len(inv.results) = 4
    /\ TokensReturned = << <<"a">>, <<"b">> >>
    /\ ~inv.results[3].found /\ ~inv.results[4].found

----------------------------------------------------------------------------
(* The parse functions of the handlers                                     *)

\* mos_exec takes the command word off the line
MosStrtokWord == MosStrtokOn(ArgumentLines, { {" "} })

\* The command word has been taken off the line and a handler runs
AtArguments ==
    /\ inv # Idle
    /\ inv.op = "mos_strtok"
    /\ inv.delims = {" "}
    /\ Len(inv.results) = 1
    /\ inv.results[1].found

\* mos_parseNumber(NULL, &value) in a handler
MosParseNumber ==
    /\ AtArguments
    /\ \E old \in { MOS_defaultLoadAddress, MOS_starLoadAddress } :
         LET n == mos_parseNumber(mos_strtok_ptr, old)
         IN  /\ mos_strtok_ptr' = n.ptr
             /\ inv' = [op |-> "mos_parseNumber", before |-> mos_strtok_ptr,
                        old |-> old, ok |-> n.ok, value |-> n.value]
    /\ UNCHANGED <<hdr, sysvars, loads, calls, ret,
                   hotkey_strings, mosFileObjects, keyascii, getkey>>

\* mos_parseString(NULL, &token) in a handler
MosParseString ==
    /\ AtArguments
    /\ LET t == mos_parseString(mos_strtok_ptr)
       IN  /\ mos_strtok_ptr' = t.ptr
           /\ inv' = [op |-> "mos_parseString", before |-> mos_strtok_ptr,
                      ok |-> t.found, tok |-> t.tok]
    /\ UNCHANGED <<hdr, sysvars, loads, calls, ret,
                   hotkey_strings, mosFileObjects, keyascii, getkey>>

NextParse == MosStrtokWord \/ MosParseNumber \/ MosParseString \/ Prompt

SpecParse == Init /\ [][NextParse]_vars

\* The text after the first space-delimited word of a text and the one
\* space that ends it; nothing when the text has no word or ends with it
AfterFirstWord(text) ==
    LET word == { i \in 1..Len(text) : text[i] # " " }
        ends == { i \in 1..Len(text) : text[i] = " " /\ \E j \in word : j < i }
    IN  IF ends = {} THEN <<>> ELSE Tail2(text, Min(ends))

FirstWord(text) ==
    LET word == { i \in 1..Len(text) : text[i] # " " }
        ends == { i \in 1..Len(text) : text[i] = " " /\ \E j \in word : j < i }
    IN  IF word = {} THEN <<>>
        ELSE SubSeq(text, Min(word), IF ends = {} THEN Len(text) ELSE Min(ends) - 1)

Parsed == inv # Idle /\ inv.op \in { "mos_parseNumber", "mos_parseString" }

DigitsOfBase(base) == { HexDigits[i] : i \in 1..base } \cup { LowerOf[HexDigits[i]] : i \in 1..base }
RECURSIVE Denoted(_, _)
Denoted(digits, base) ==
    IF digits = <<>> \/ \E i \in 1..Len(digits) : digits[i] \notin DigitsOfBase(base) THEN -1
    ELSE LET last == UpperOf[digits[Len(digits)]]
             unit == (CHOOSE i \in 1..base : HexDigits[i] = last) - 1
         IN  IF Len(digits) = 1 THEN unit
             ELSE Denoted(SubSeq(digits, 1, Len(digits) - 1), base) * base + unit

NumberOf(word) ==
    IF Head(word) = "&" THEN Denoted(Tail(word), 16) ELSE Denoted(word, 10)

ParsedNumber == inv # Idle /\ inv.op = "mos_parseNumber" /\ FirstWord(inv.before) # <<>>

\* C23 as stated: the word is read as hexadecimal after '&' and as decimal
\* otherwise; the call succeeds and stores the number the word denotes, or
\* fails and stores nothing when the word is not a number.
C23_ParsesDenotedValue ==
    ParsedNumber =>
        LET number == NumberOf(FirstWord(inv.before))
        IN  /\ number >= 0 => (inv.ok /\ inv.value = number)
            /\ number < 0 => (~inv.ok /\ inv.value = inv.old)

\* What does hold: a number is stored modulo 2^AddrBits, a failed call
\* stores nothing, and a word that denotes no number is still accepted
\* when it has no digit at all or a sign.
C23_ParsesLowBits ==
    ParsedNumber =>
        LET word == FirstWord(inv.before)
            number == NumberOf(word)
            body == IF Head(word) = "&" THEN Tail(word) ELSE word
        IN  /\ number >= 0 => (inv.ok /\ inv.value = number % AddrMod)
            /\ ~inv.ok => inv.value = inv.old
            /\ (number < 0 /\ inv.ok) => (body = <<>> \/ Head(body) \in {"+", "-"})

----------------------------------------------------------------------------
(* Functions of their arguments alone                                      *)

\* mos_trim(s), and mos_trim of what it returned
TrimChars == { " ", "\t", "*", "a" }
MosTrim ==
    /\ inv = Idle
    /\ \E s \in StringsOver(TrimChars, MaxLineLength) :
         inv' = [op |-> "mos_trim", s |-> s, result |-> mos_trim(s),
                 again |-> mos_trim(mos_trim(s))]
    /\ UNCHANGED <<mos_strtok_ptr, hdr, sysvars, loads, calls, ret,
                   hotkey_strings, mosFileObjects, keyascii, getkey>>

\* The shell runs HELP
HelpWord == <<"h", "e", "l", "p">>
HelpArguments ==
    { <<>>, <<"a", "l", "l">>, <<"A", "L", "L">>, <<"c", "a", "t">>, <<"c", "*">>,
      <<"d", "e", "l">>, <<"d", "e", "l", "e", "t", "e">>, <<"d", "i", "s", "c">>,
      <<"d">>, <<"m", "*">>, <<"*">>, <<"*", "e">>, <<"z", "a", "p">>, <<"r", "m">>,
      <<"c", "l", "s">>, <<"h", "e", "l", "p">>, <<"s", "e", "t">>, <<"s", "*", "t">>,
      <<".">>, <<"c", "a", "t", " ", "r", "m">>, <<"z", "a", "p", " ", "m", "v">>,
      <<"c", "d", " ", "a", "l", "l">> }

MosExecHelp ==
    /\ inv = Idle
    /\ \E arguments \in HelpArguments :
         LET line == HelpWord \o (IF arguments = <<>> THEN <<>> ELSE Sp \o arguments)
             env == Env(Card(HelpWord, NoFile, NoFile, NoFile), FR_OK, FR_OK, "NULL",
                        NoEval, "intact", "none")
         IN  Becomes(mos_exec(IdleState, line, TRUE, env),
                     [op |-> "mos_exec", line |-> line, in_mos |-> TRUE, env |-> env])

\* Error codes handed to mos_error and mos_GETERROR: the codes of the
\* table and some on either side of it
ErrorCodes == (0 - 2)..(mos_errors_count + 2)
UINT8(n) == n % 256

\* mos_error(error)
MosError ==
    /\ inv = Idle
    /\ \E error \in ErrorCodes :
         inv' = [op |-> "mos_error", code |-> error, message |-> mos_error(error),
                 outside |-> FALSE]
    /\ UNCHANGED <<mos_strtok_ptr, hdr, sysvars, loads, calls, ret,
                   hotkey_strings, mosFileObjects, keyascii, getkey>>

\* mos_GETERROR(errno, address, size), errno being a UINT8
MosGETERROR ==
    /\ inv = Idle
    /\ \E error \in ErrorCodes, junk \in { <<>>, <<"OK">>, <<"junk">> } :
         LET r == mos_GETERROR(UINT8(error), junk)
         IN  inv' = [op |-> "mos_GETERROR", code |-> error, message |-> r.source,
                     outside |-> r.outside]
    /\ UNCHANGED <<mos_strtok_ptr, hdr, sysvars, loads, calls, ret,
                   hotkey_strings, mosFileObjects, keyascii, getkey>>

NextPure == MosTrim \/ MosExecHelp \/ MosError \/ MosGETERROR \/ Prompt

SpecPure == Init /\ [][NextPure]_vars

\* C21: trimming what mos_trim returned changes nothing; the result is
\* empty, or its first character is neither white space nor an asterisk
\* and its last character is not white space.
C21_TrimIdempotent ==
    (inv # Idle /\ inv.op = "mos_trim") =>
        /\ inv.again = inv.result
        /\ inv.result # <<>> =>
             /\ ~isspace(inv.result[1])
             /\ inv.result[1] # "*"
             /\ ~isspace(inv.result[Len(inv.result)])

C21_Witness ==
    /\ inv # Idle
    /\ inv.op = "mos_trim"
    /\ inv.s = <<" ", "*", "a", "\t">>
    /\ inv.result = <<"a">>

----------------------------------------------------------------------------
(* Variables that refer to variables, and the prompt                       *)

Ref(name) == <<"<">> \o name \o <<">">>
SetWord == <<"s", "e", "t">>
SetMacroWord == <<"s", "e", "t", "m", "a", "c", "r", "o">>

MacroLines ==
    { SetWord \o Sp \o Beta \o Sp \o <<"1">>,
      SetWord \o Sp \o Beta \o Sp \o <<"2">>,
      UnsetWord \o Sp \o Beta,
      SetWord \o Sp \o Alpha \o Sp \o Ref(Beta),
      SetWord \o Sp \o Alpha \o Sp \o <<"x">> \o Ref(Beta) \o <<" ", "y">>,
      SetWord \o Sp \o Alpha \o Sp \o Ref(Sys_Year) \o Ref(zap),
      SetMacroWord \o Sp \o Alpha \o Sp \o Ref(Beta),
      UnsetWord \o Sp \o Alpha,
      UnsetWord \o Sp \o CLI_Prompt,
      SetMacroWord \o Sp \o CLI_Prompt \o Sp \o Ref(Alpha) \o <<" ", "*">>,
      SetMacroWord \o Sp \o CLI_Prompt \o Sp \o DefaultPrompt }

\* The shell runs a variable command
MosExecMacro ==
    /\ inv = Idle
    /\ \E line \in MacroLines :
         \E env \in VarEnvs(line) :
            Becomes(mos_exec(IdleState, line, TRUE, env),
                    [op |-> "mos_exec", line |-> line, in_mos |-> TRUE, env |-> env,
                     before |-> sysvars])

\* The shell asks for a line: mos_input(buffer, bufferLength)
MosInput ==
    /\ inv = Idle
    /\ \E oom \in {"none", "value"}, key \in {13, 27} :
         Becomes(mos_input(IdleState, oom, key),
                 [op |-> "mos_input", oom |-> oom, key |-> key])

NextMacro == MosExecMacro \/ MosInput \/ Prompt

SpecMacro == Init /\ [][NextMacro]_vars

\* The text a template stands for in a store: each <Name> replaced by the
\* value of the variable of that name (nothing when there is none), a Code
\* variable read through its accessor, a Macro expanded in turn; all other
\* text as it is.  levels bounds the nesting followed.
RECURSIVE Expansion(_, _, _)
ValueIn(list, name, levels) ==
    LET vs == { v \in Entries(list) : Upper(v.label) = Upper(name) }
        v == CHOOSE v \in vs : TRUE
    IN  IF vs = {} THEN <<>>
        ELSE CASE v.type = MOS_VAR_STRING -> v.str
               [] v.type = MOS_VAR_NUMBER -> itoa(v.num)
               [] v.type = MOS_VAR_CODE   -> ReadAccessor(v.code)
               [] OTHER -> IF levels = 0 THEN <<>> ELSE Expansion(list, v.str, levels - 1)

Expansion(list, text, levels) ==
    LET open == IndexOf(text, "<")
        rest == Tail2(text, open)
        close == IndexOf(rest, ">")
    IN  IF open = 0 \/ close = 0 THEN text
        ELSE SubSeq(text, 1, open - 1)
             \o ValueIn(list, SubSeq(rest, 1, close - 1), levels)
             \o Expansion(list, Tail2(rest, close), levels)

\* What mos_input printed as the prompt
PromptsShown == SelectSeq(calls, LAMBDA c : c.kind = "printf")

\* C17: the prompt mos_input shows is the text of CLI$Prompt with each
\* <Name> replaced by the current value of the variable Name, a Code
\* variable read through its accessor, and all other text kept; for the
\* start-up prompt "<Current$Dir> *" that is the current directory
\* followed by " *".
C17_PromptExpanded ==
    (/\ inv.op = "mos_input" /\ inv.oom = "none"
     /\ getSystemVariable(sysvars, CLI_Prompt, 0).res = 0)
    => /\ Len(PromptsShown) = 1
       /\ LET v == sysvars[getSystemVariable(sysvars, CLI_Prompt, 0).var]
          IN  /\ v.type = MOS_VAR_MACRO
              /\ PromptsShown[1].arg = Expansion(sysvars, v.str, 3)
              /\ (v.str = DefaultPrompt
                  => PromptsShown[1].arg = ReadAccessor("cwdVar") \o <<" ", "*">>)

\* With the start-up prompt and the current directory reading /docs the
\* prompt shown is "/docs *"
C17_Witness ==
    /\ inv.op = "mos_input"
    /\ sysvars = mos_setupSystemVariables
    /\ ReadAccessor("cwdVar") = <<"/", "d", "o", "c", "s">>
    /\ Len(PromptsShown) = 1
    /\ PromptsShown[1].arg = <<"/", "d", "o", "c", "s", " ", "*">>

\* The name of the line is a plain name: the entry the command is about
Named(v) == Upper(v.label) = Upper(TheName)

\* C19: SET stores the expansion of its value text against the store at
\* the time of the SET, as a String; SETMACRO stores the text as it is, as
\* a Macro; a command changes no entry but the one it names, so a stored
\* String keeps its value when the variables it was made from change; and
\* a Macro read for the prompt is expanded against the store at that read.
C19_ExpansionTime ==
    /\ (VarRun("mos_cmdSET") /\ ret = FR_OK /\ OwnedName(inv.before))
       => \E v \in Entries(sysvars) :
             /\ Named(v) /\ v.type = MOS_VAR_STRING
             /\ v.str = Expansion(inv.before, TheValue, 3)
    /\ (VarRun("mos_cmdSETMACRO") /\ ret = FR_OK /\ OwnedName(inv.before))
       => \E v \in Entries(sysvars) :
             Named(v) /\ v.type = MOS_VAR_MACRO /\ v.str = TheValue
    /\ (inv.op = "mos_exec" /\ "before" \in DOMAIN inv /\ OwnedName(inv.before))
       => \A v \in Entries(inv.before) : ~Named(v) => v \in Entries(sysvars)
    /\ (/\ inv.op = "mos_input" /\ inv.oom = "none"
        /\ getSystemVariable(sysvars, CLI_Prompt, 0).res = 0)
       => LET v == sysvars[getSystemVariable(sysvars, CLI_Prompt, 0).var]
          IN  PromptsShown[1].arg = Expansion(sysvars, v.str, 3)

\* Alpha, made by SET from <Beta> when Beta was 1, is still 1 after SET
\* Beta 2
C19_Witness ==
    /\ VarRun("mos_cmdSET")
    /\ TheName = Beta /\ TheValue = <<"2">>
    /\ ret = FR_OK
    /\ \E v \in Entries(inv.before) : v.label = Beta /\ v.str = <<"1">>
    /\ \E v \in Entries(sysvars) : v.label = Beta /\ v.str = <<"2">>
    /\ \E v \in Entries(sysvars) :
         v.label = Alpha /\ v.type = MOS_VAR_STRING /\ v.str = <<"1">>

\* C38: mos_input frees the prompt only when it is the heap buffer the
\* expansion returned; the static prompt "*" is printed and never freed.
C38_StaticPromptNotFreed ==
    inv.op = "mos_input"
    => \A i \in 1..Len(calls) :
          calls[i].kind = "umm_free" => calls[i].who = "heap"

\* The part of C38 that holds: the static prompt "*" is printed exactly when
\* CLI$Prompt is absent or its expansion fails, and one buffer is freed
\* after the prompt is printed.
C38_StaticPromptPrinted ==
    inv.op = "mos_input"
    => /\ Len(calls) = 2
       /\ calls[1].kind = "printf" /\ calls[2].kind = "umm_free"
       /\ (calls[2].who = "static")
            <=> (inv.oom = "value" \/ getSystemVariable(sysvars, CLI_Prompt, 0).res # 0)
       /\ calls[2].who = "static" => calls[1].arg = <<"*">>

\* mos_input after UNSET CLI$Prompt, with no allocation failure
C38_PromptAbsent ==
    /\ inv.op = "mos_input"
    /\ inv.oom = "none"
    /\ getSystemVariable(sysvars, CLI_Prompt, 0).res # 0

HelpRun == inv.op = "mos_exec" /\ mos_getCommand(TheWord).func = "mos_cmdHELP"

\* HELP was given one pattern
HelpPattern == FirstWord(TheRest)
OnePattern ==
    /\ HelpRun
    /\ HelpPattern # <<>>
    /\ FirstWord(AfterFirstWord(TheRest)) = <<>>

Printed == SelectSeq(calls, LAMBDA c : c.kind = "printCommandInfo")
NamesOf(commands) == [i \in 1..Len(commands) |-> commands[i].name]
PrintedNames == [i \in 1..Len(Printed) |-> Printed[i].who]
PrintedInFull == \A i \in 1..Len(Printed) : Printed[i].arg.help # "NULL"

\* C29 as stated: HELP with a pattern prints, in table order, exactly the
\* commands whose full names match the pattern, a prefix of a name not
\* being a match.
C29_HelpListsFullMatches ==
    OnePattern =>
        /\ PrintedNames =
             NamesOf(SelectSeq(mosCommands, LAMBDA c : pmatch(HelpPattern, c.name, FALSE) = 0))
        /\ PrintedInFull

\* C29: HELP with a pattern prints, in table order, exactly the commands
\* with a help text whose names match the pattern the way a command word
\* does, abbreviations included; HELP ALL prints every command with a help
\* text in brief.
C29_HelpListsMatches ==
    OnePattern =>
        IF Upper(HelpPattern) = <<"A", "L", "L">>
        THEN /\ PrintedNames =
                  NamesOf(SelectSeq(mosCommands, LAMBDA c : c.help # "NULL"))
             /\ \A i \in 1..Len(Printed) : Printed[i].arg.help = "NULL"
        ELSE /\ PrintedNames =
                  NamesOf(SelectSeq(mosCommands,
                                    LAMBDA c : /\ c.help # "NULL"
                                               /\ pmatch(HelpPattern, c.name, TRUE) = 0))
             /\ PrintedInFull

C29_Witness ==
    /\ OnePattern
    /\ HelpPattern = <<"d">>
    /\ PrintedNames = << <<"D", "E", "L", "E", "T", "E">>, <<"D", "I", "R">> >>

\* The names joined by commas, the last two by the given text
RECURSIVE Join(_, _)
Join(names, last) ==
    IF Len(names) = 1 THEN names[1]
    ELSE IF Len(names) = 2 THEN names[1] \o last \o names[2]
    ELSE names[1] \o <<",", " ">> \o Join(Tail(names), last)

Described(name) == CHOOSE c \in { mosCommands[i] : i \in 1..mosCommands_count } : c.name = name
AliasesOf(name) ==
    SelectSeq(mosCommands,
              LAMBDA c : c.func = Described(name).func /\ c.name # name)

\* The alias clause with the given text between the last two of three or
\* more names
AliasClause(name, last) ==
    LET others == NamesOf(AliasesOf(name))
    IN  IF others = <<>> THEN <<>>
        ELSE <<" ", "(", "A", "l", "i", "a", "s", "e", "s", ":", " ">> \o Join(others, IF Len(others) = 2 THEN <<" ", "a", "n", "d", " ">> ELSE last) \o <<")">>

\* C30 as stated: the alias clause names the other commands with the same
\* handler, once each in table order, as "X", "X and Y" or "X, Y, and Z",
\* and is absent when there is none; no command without a help text is
\* printed or named as an alias.
C30_AliasClauseOxford ==
    HelpRun =>
        \A i \in 1..Len(Printed) :
            /\ Printed[i].arg.aliases = AliasClause(Printed[i].who, <<",", " ", "a", "n", "d", " ">>)
            /\ Described(Printed[i].who).help # "NULL"
            /\ \A j \in 1..Len(AliasesOf(Printed[i].who)) :
                   AliasesOf(Printed[i].who)[j].help # "NULL"

\* C30: the same, three or more aliases being printed as "X, Y and Z".
C30_AliasClause ==
    HelpRun =>
        \A i \in 1..Len(Printed) :
            /\ Printed[i].arg.aliases = AliasClause(Printed[i].who, <<" ", "a", "n", "d", " ">>)
            /\ Described(Printed[i].who).help # "NULL"
            /\ \A j \in 1..Len(AliasesOf(Printed[i].who)) :
                   AliasesOf(Printed[i].who)[j].help # "NULL"

C30_Witness ==
    /\ HelpRun
    /\ \E i \in 1..Len(Printed) :
         /\ Printed[i].who = <<"C", "A", "T">>
         /\ Printed[i].arg.aliases = <<" ", "(", "A", "l", "i", "a", "s", "e", "s", ":", " ", ".", ",", " ", "D", "I", "R", " ", "a", "n", "d", " ", "L", "S", ")">>

Reported == inv.op \in { "mos_error", "mos_GETERROR" }

\* C27 as stated: mos_error and mos_GETERROR give the message of the table
\* for a code in its range, and for any other code give no message and
\* read nothing outside the table.
C27_MessageOfTable ==
    Reported =>
        /\ ~inv.outside
        /\ inv.message = IF inv.code \in 0..(Len(mos_errors) - 1)
                         THEN <<mos_errors[inv.code + 1]>> ELSE <<>>

\* What does hold: mos_error does so.
C27_ErrorPrinted ==
    inv.op = "mos_error" =>
        /\ ~inv.outside
        /\ inv.message = IF inv.code \in 0..(Len(mos_errors) - 1)
                         THEN <<mos_errors[inv.code + 1]>> ELSE <<>>

----------------------------------------------------------------------------
(* The hotkey table                                                        *)

HotkeyWord == <<"h", "o", "t", "k", "e", "y">>
dir == <<"d", "i", "r">>

\* What follows the command word: no number, numbers inside and outside
\* 1..12 (one of them past the top of the address width), with a text, a
\* quoted text, a lone quote, two spaces, or nothing after the number
HotkeyArguments ==
    { <<>>, <<"x", " ">> \o dir,
      <<"1">>, <<"2">>, <<"1", "2">>, <<"0">>, <<"1", "3">>,
      <<"1", " ">> \o dir, <<"1", " ">> \o cat, <<"2", " ">> \o dir,
      <<"1", "2", " ">> \o dir, <<"&", "C", " ">> \o cat,
      <<"0", " ">> \o dir, <<"1", "3", " ">> \o dir,
      itoa(AddrMod + 1) \o Sp \o dir, itoa(AddrMod + 1),
      <<"1", " ", "\"">> \o dir \o <<"\"">>, <<"1", " ", "\"">>,
      <<"1", " ", " ">> \o dir }

\* The shell runs HOTKEY
MosExecHotkey ==
    /\ inv = Idle
    /\ \E arguments \in HotkeyArguments, oom \in {"none", "value"} :
         LET line == HotkeyWord \o (IF arguments = <<>> THEN <<>> ELSE Sp \o arguments)
             env == Env(Card(HotkeyWord, NoFile, NoFile, NoFile), FR_OK, FR_OK, "NULL",
                        NoEval, "intact", oom)
         IN  Becomes(mos_exec(IdleState, line, TRUE, env),
                     [op |-> "mos_exec", line |-> line, in_mos |-> TRUE, env |-> env,
                      keys |-> hotkey_strings])

NextKeys == MosExecHotkey \/ Prompt

SpecKeys == Init /\ [][NextKeys]_vars

HotkeyRun == inv.op = "mos_exec" /\ "keys" \in DOMAIN inv

\* The number typed after HOTKEY, -1 when the word is no number, and the
\* text after the one space that ends it
HotkeyNumber == IF FirstWord(TheRest) = <<>> THEN -1 ELSE NumberOf(FirstWord(TheRest))
HotkeyText == AfterFirstWord(TheRest)

OtherSlotsKept(n) ==
    \A key \in 1..HotkeyCount : key # n => hotkey_strings[key] = inv.keys[key]

\* C31: the table has 12 slots; HOTKEY n text with n in 1..12 makes slot n
\* hold text and changes no other slot, HOTKEY n empties slot n and changes
\* no other slot, HOTKEY n with n outside 1..12 changes no slot; no slot
\* points at a freed buffer.
C31_HotkeyFrame ==
    /\ Len(hotkey_strings) = HotkeyCount
    /\ \A key \in 1..HotkeyCount : hotkey_strings[key].ptr \in {"NULL", "heap"}
    /\ (HotkeyRun /\ HotkeyNumber >= 0)
       => IF HotkeyNumber \in 1..HotkeyCount
          THEN /\ OtherSlotsKept(HotkeyNumber)
               /\ hotkey_strings[HotkeyNumber]
                    = IF HotkeyText = <<>> THEN NullString ELSE HeapString(HotkeyText)
          ELSE hotkey_strings = inv.keys

\* The part of C31 that holds: the table has 12 slots, none points at a
\* freed buffer, a command changes at most the slot of the number stored
\* (the low bits of the number typed), and that slot is then empty or holds
\* the text, without the double quotes around it if it had them.
C31_HotkeySlots ==
    /\ Len(hotkey_strings) = HotkeyCount
    /\ \A key \in 1..HotkeyCount : hotkey_strings[key].ptr \in {"NULL", "heap"}
    /\ (HotkeyRun /\ HotkeyNumber >= 0)
       => IF HotkeyNumber % AddrMod \in 1..HotkeyCount
          THEN /\ OtherSlotsKept(HotkeyNumber % AddrMod)
               /\ hotkey_strings[HotkeyNumber % AddrMod]
                    = IF HotkeyText = <<>> \/ inv.env.oom = "value"
                      THEN NullString
                      ELSE HeapString(Unquoted(HotkeyText))
          ELSE hotkey_strings = inv.keys
    /\ (HotkeyRun /\ HotkeyNumber < 0) => hotkey_strings = inv.keys

\* HOTKEY with a number past the top of the address width, which is outside
\* 1..12, has set the first slot
C31_WrappedNumber ==
    /\ HotkeyRun
    /\ HotkeyNumber = AddrMod + 1
    /\ inv.keys[1] = NullString
    /\ hotkey_strings[1] = HeapString(dir)

----------------------------------------------------------------------------
(* The file table                                                          *)

FileNames == { <<"f">>, <<"g">> }

\* The handles a caller passes: a UINT8, in the table and outside it
Handles == 0..(MOS_maxOpenFiles + 2) \cup { 255 }

\* A program calls mos_FOPEN(filename, mode); f_open succeeds or fails on
\* each slot it is tried on
MosFOPEN ==
    /\ inv = Idle
    /\ \E filename \in FileNames, frs \in [1..MOS_maxOpenFiles -> {FR_OK, FR_NO_FILE}] :
         /\ mosFileObjects' = mos_FOPEN(mosFileObjects, filename, frs).table
         /\ ret' = mos_FOPEN(mosFileObjects, filename, frs).ret
         /\ inv' = [op |-> "mos_FOPEN", filename |-> filename, frs |-> frs,
                    files |-> mosFileObjects]
    /\ UNCHANGED <<mos_strtok_ptr, hdr, sysvars, loads, calls, hotkey_strings, keyascii, getkey>>

\* A program calls mos_FCLOSE(fh)
MosFCLOSE ==
    /\ inv = Idle
    /\ \E fh \in Handles :
         /\ mosFileObjects' = mos_FCLOSE(mosFileObjects, fh).table
         /\ ret' = mos_FCLOSE(mosFileObjects, fh).ret
         /\ inv' = [op |-> "mos_FCLOSE", fh |-> fh, files |-> mosFileObjects]
    /\ UNCHANGED <<mos_strtok_ptr, hdr, sysvars, loads, calls, hotkey_strings, keyascii, getkey>>

\* A program calls mos_GETFIL(fh)
MosGETFIL ==
    /\ inv = Idle
    /\ \E fh \in Handles :
         /\ ret' = mos_GETFIL(mosFileObjects, fh)
         /\ inv' = [op |-> "mos_GETFIL", fh |-> fh, files |-> mosFileObjects]
    /\ UNCHANGED <<mos_strtok_ptr, hdr, sysvars, loads, calls, hotkey_strings,
                   mosFileObjects, keyascii, getkey>>

NextFiles == MosFOPEN \/ MosFCLOSE \/ MosGETFIL \/ Prompt

SpecFiles == Init /\ [][NextFiles]_vars

\* The handles whose FIL is open
OpenIn(table) == { h \in 1..MOS_maxOpenFiles : table[h].fileObject.open }

\* C32: mos_FCLOSE(0) closes every open file; mos_FCLOSE(fh) with fh not 0
\* closes at most the file of fh and leaves every other slot as it was, so
\* a handle above MOS_maxOpenFiles closes nothing.
C32_CloseOneOrAll ==
    inv.op = "mos_FCLOSE"
    => IF inv.fh = 0 THEN OpenIn(mosFileObjects) = {}
       ELSE /\ OpenIn(mosFileObjects) = OpenIn(inv.files) \ {inv.fh}
            /\ \A h \in 1..MOS_maxOpenFiles : h # inv.fh => mosFileObjects[h] = inv.files[h]

\* The part of C32 that holds: a handle in 1..MOS_maxOpenFiles closes its
\* own file and leaves every other slot as it was; any other handle, 0 or
\* above MOS_maxOpenFiles, closes every open file.
C32_CloseInRange ==
    inv.op = "mos_FCLOSE"
    => IF inv.fh \in 1..MOS_maxOpenFiles
       THEN /\ OpenIn(mosFileObjects) = OpenIn(inv.files) \ {inv.fh}
            /\ \A h \in 1..MOS_maxOpenFiles : h # inv.fh => mosFileObjects[h] = inv.files[h]
       ELSE OpenIn(mosFileObjects) = {}

\* mos_FCLOSE with a handle above MOS_maxOpenFiles has closed two open files
C32_ClosedByOutside ==
    /\ inv.op = "mos_FCLOSE"
    /\ inv.fh = MOS_maxOpenFiles + 1
    /\ Cardinality(OpenIn(inv.files)) = 2
    /\ OpenIn(mosFileObjects) = {}

\* C33: the slots marked in use are those whose file f_open opened and
\* f_close has not closed since; mos_GETFIL(h) returns a file object exactly
\* for those handles; mos_FOPEN returns 0 and opens nothing, or returns a
\* handle that was not open, whose file is then open under the name given,
\* every other slot staying open or closed as it was.
C33_HandlesAreOpenFiles ==
    /\ \A h \in 1..MOS_maxOpenFiles :
          mosFileObjects[h].free > 0 <=> mosFileObjects[h].fileObject.open
    /\ inv.op = "mos_GETFIL"
       => /\ ret # 0 <=> inv.fh \in OpenIn(mosFileObjects)
          /\ ret # 0 => ret = inv.fh
    /\ inv.op = "mos_FOPEN"
       => IF ret = 0 THEN OpenIn(mosFileObjects) = OpenIn(inv.files)
          ELSE /\ ret \in 1..MOS_maxOpenFiles
               /\ ret \notin OpenIn(inv.files)
               /\ OpenIn(mosFileObjects) = OpenIn(inv.files) \cup {ret}
               /\ mosFileObjects[ret].fileObject.name = inv.filename
               /\ \A h \in OpenIn(inv.files) : mosFileObjects[h] = inv.files[h]

\* Handle 1 was closed while handle 2 stayed open, and mos_FOPEN returns
\* handle 1 again for another file
C33_Witness ==
    /\ inv.op = "mos_FOPEN"
    /\ inv.files[1].free = 0 /\ inv.files[1].fileObject.name = <<"f">>
    /\ OpenIn(inv.files) = {2}
    /\ inv.filename = <<"g">>
    /\ ret = 1
    /\ OpenIn(mosFileObjects) = {1, 2}

----------------------------------------------------------------------------
(* mos_getkey and the keyboard interrupt                                   *)

\* The key codes the interrupt stores, and how many it stores in a run
KeyCodes == { 65, 66 }
MaxKeys == 3

\* The keyboard interrupt stores a key code in keyascii, at any moment
KeyInterrupt ==
    /\ Len(getkey.stored) < MaxKeys
    /\ \E key \in KeyCodes :
         /\ keyascii' = key
         /\ getkey' = [getkey EXCEPT !.stored = Append(@, key)]
    /\ UNCHANGED <<mos_strtok_ptr, hdr, sysvars, inv, loads, calls, ret,
                   hotkey_strings, mosFileObjects>>

\* BYTE ch = 0;
GetkeyCall ==
    /\ inv = Idle
    /\ getkey.pc = "idle"
    /\ getkey' = [getkey EXCEPT !.pc = "loop", !.ch = 0]
    /\ UNCHANGED <<mos_strtok_ptr, hdr, sysvars, inv, loads, calls, ret,
                   hotkey_strings, mosFileObjects, keyascii>>

\* while (ch == 0) ch = keyascii;
GetkeyRead ==
    /\ getkey.pc = "loop"
    /\ getkey' = [getkey EXCEPT !.ch = keyascii,
                                !.pc = IF keyascii = 0 THEN "loop" ELSE "reset"]
    /\ UNCHANGED <<mos_strtok_ptr, hdr, sysvars, inv, loads, calls, ret,
                   hotkey_strings, mosFileObjects, keyascii>>

\* keyascii = 0;
GetkeyReset ==
    /\ getkey.pc = "reset"
    /\ keyascii' = 0
    /\ getkey' = [getkey EXCEPT !.pc = "return"]
    /\ UNCHANGED <<mos_strtok_ptr, hdr, sysvars, inv, loads, calls, ret,
                   hotkey_strings, mosFileObjects>>

\* return ch;
GetkeyReturn ==
    /\ getkey.pc = "return"
    /\ ret' = getkey.ch
    /\ getkey' = [getkey EXCEPT !.pc = "idle", !.returned = Append(@, getkey.ch)]
    /\ UNCHANGED <<mos_strtok_ptr, hdr, sysvars, inv, loads, calls,
                   hotkey_strings, mosFileObjects, keyascii>>

NextGetkey == KeyInterrupt \/ GetkeyCall \/ GetkeyRead \/ GetkeyReset \/ GetkeyReturn

SpecGetkey == Init /\ [][NextGetkey]_vars

\* C40: every key code the interrupt stored is returned by a call of
\* mos_getkey: when no call is under way and keyascii holds no key, the
\* codes returned are the codes stored; and no call returns 0.
C40_EveryKeyReturned ==
    /\ (getkey.pc = "idle" /\ keyascii = 0) => getkey.returned = getkey.stored
    /\ \A i \in 1..Len(getkey.returned) : getkey.returned[i] # 0

\* s is t with some of its elements left out
RECURSIVE IsSubsequence(_, _)
IsSubsequence(s, t) ==
    IF s = <<>> THEN TRUE
    ELSE IF t = <<>> THEN FALSE
    ELSE IF Head(s) = Head(t) THEN IsSubsequence(Tail(s), Tail(t))
    ELSE IsSubsequence(s, Tail(t))

\* The part of C40 that holds: no call returns 0, and the codes returned
\* are codes the interrupt stored, in the order it stored them.
C40_ReturnsStoredKeys ==
    /\ \A i \in 1..Len(getkey.returned) : getkey.returned[i] # 0
    /\ IsSubsequence(getkey.returned, getkey.stored)

\* mos_getkey has read 65; the interrupt has stored 66 since; the reset is
\* the next statement of the call and overwrites the 66 nobody has read
C40_ResetDiscardsKey ==
    /\ getkey.pc = "reset"
    /\ getkey.ch = 65
    /\ keyascii = 66
    /\ getkey.stored = <<65, 66>>
    /\ getkey.returned = <<>>

====
